---- MODULE Spec2Model ----
(***************************************************************************)
(* Model of ltm (personal ticket tracker): the in-memory time-tracking     *)
(* state machine of CommandHandler, the validator, and the command router  *)
(* over an abstract repository (src/src/commands.rs, validation.rs,        *)
(* db.rs).  One action per command; each action runs the whole handler,    *)
(* including every repository call it makes, and records the calls and     *)
(* the outcome of the command in `last`.                                   *)
(*                                                                         *)
(* Time is in whole seconds.  Strings are sequences of one-character       *)
(* strings.  Option<T> is a sequence of length 0 (None) or 1 (Some).       *)
(***************************************************************************)
EXTENDS Integers, Sequences, FiniteSets, TLC

VARIABLES
    tickets,          \* tickets table: id -> row (rows present only)
    next_id,          \* AUTOINCREMENT counter of tickets
    time_logs,        \* time_logs table: id -> row
    next_log_id,      \* AUTOINCREMENT counter of time_logs
    comments,         \* comments table: id -> row
    next_comment_id,  \* AUTOINCREMENT counter of comments
    time_tracking,    \* CommandHandler.time_tracking: HashMap<i64, TimeTrackingState>
    now,              \* the wall clock (Utc::now()), seconds
    run_secs,         \* history: seconds each tracked ticket has spent running
    last,             \* history: the command that has just run, its repository calls and outcome
    arg,              \* the input of the last call of a pure function
    ret               \* what that call returned

vars == <<tickets, next_id, time_logs, next_log_id, comments, next_comment_id,
          time_tracking, now, run_secs, last, arg, ret>>

----------------------------------------------------------------------------
(* Bounds of the model *)

MaxTicket == 1
MaxLogs == 1
MaxComments == 1
BulkTickets == 3
MaxFailPoint == 4
MaxHours == 25
MaxMinutes == 90
SummaryTickets == 2
SummaryLogs == 2
FrameTickets == 2
FrameLogs == 1

----------------------------------------------------------------------------
(* Option<T> *)

None == <<>>
Some(x) == <<x>>
IsSome(o) == o # <<>>
Unwrap(o) == o[1]
UnwrapOr(o, d) == IF o = <<>> THEN d ELSE o[1]

(* Finite maps (HashMap / table) *)

EmptyMap == <<>>
Insert(m, k, v) == [x \in (DOMAIN m) \cup {k} |-> IF x = k THEN v ELSE m[x]]
Remove(m, k) == [x \in (DOMAIN m) \ {k} |-> m[x]]
Get(m, k) == IF k \in DOMAIN m THEN Some(m[k]) ELSE None

----------------------------------------------------------------------------
(* Integer widths *)

I32Min == -2147483647 - 1
I32Max == 2147483647

\* `x as i32` on the i64 of num_hours()/num_minutes(): the low 32 bits.  Every
\* value the model reaches lies inside i32, where the cast is the identity.
AsI32(x) == IF x > I32Max THEN x - I32Max - I32Max - 2 ELSE x

\* chrono Duration::num_hours / num_minutes: whole units, truncated toward zero
TruncDiv(a, b) == IF a >= 0 THEN a \div b ELSE -((-a) \div b)
TruncRem(a, b) == a - b * TruncDiv(a, b)
num_hours(d) == TruncDiv(d, 3600)
num_minutes(d) == TruncDiv(d, 60)

----------------------------------------------------------------------------
(* str::parse::<i64>() and ::<i32>(): optional sign, then one or more ASCII digits *)

DigitChars == {"0", "1", "2", "3", "4", "5", "6", "7", "8", "9"}

DigitVal(c) ==
    CASE c = "0" -> 0 [] c = "1" -> 1 [] c = "2" -> 2 [] c = "3" -> 3 [] c = "4" -> 4
      [] c = "5" -> 5 [] c = "6" -> 6 [] c = "7" -> 7 [] c = "8" -> 8 [] c = "9" -> 9

RECURSIVE DecValue(_)
DecValue(s) ==
    IF s = <<>> THEN 0
    ELSE DecValue(SubSeq(s, 1, Len(s) - 1)) * 10 + DigitVal(s[Len(s)])

RECURSIVE StripZeros(_)
StripZeros(s) == IF s # <<>> /\ Head(s) = "0" THEN StripZeros(Tail(s)) ELSE s

\* Whether the digit string a (no leading zero) denotes a number above that of b
Exceeds(a, b) ==
    \/ Len(a) > Len(b)
    \/ /\ Len(a) = Len(b)
       /\ \E i \in 1..Len(a) :
             /\ DigitVal(a[i]) > DigitVal(b[i])
             /\ \A j \in 1..(i - 1) : a[j] = b[j]

\* The magnitudes of MAX and MIN of the integer type are given as digit
\* strings: the overflow check compares digits, and the value is computed
\* only for a string within the range.
ParseInt(s, max, min) ==
    LET signed == Len(s) > 0 /\ s[1] \in {"+", "-"}
        neg == Len(s) > 0 /\ s[1] = "-"
        body == IF signed THEN Tail(s) ELSE s
    IN IF body = <<>> \/ (\E i \in 1..Len(body) : body[i] \notin DigitChars)
       THEN None
       ELSE IF Exceeds(StripZeros(body), IF neg THEN min ELSE max) THEN None
       ELSE Some(IF neg THEN -DecValue(StripZeros(body)) ELSE DecValue(StripZeros(body)))

I64MaxDigits ==
    <<"9", "2", "2", "3", "3", "7", "2", "0", "3", "6", "8", "5", "4", "7", "7", "5", "8", "0", "7">>
I64MinDigits ==
    <<"9", "2", "2", "3", "3", "7", "2", "0", "3", "6", "8", "5", "4", "7", "7", "5", "8", "0", "8">>
I32MaxDigits == <<"2", "1", "4", "7", "4", "8", "3", "6", "4", "7">>
I32MinDigits == <<"2", "1", "4", "7", "4", "8", "3", "6", "4", "8">>

\* The inputs of the model are either short or out of the i64 range, so that
\* the value of an accepted string is never beyond the checker's integers.
parse_i64(s) == ParseInt(s, I64MaxDigits, I64MinDigits)
parse_i32(s) == ParseInt(s, I32MaxDigits, I32MinDigits)

----------------------------------------------------------------------------
(* validation.rs *)

ValidationErrors ==
    {"InvalidTicketId", "TicketNotFound", "InvalidProjectName", "InvalidTime",
     "InvalidStatus", "InvalidContentLength"}

\* Result<T, E>: [ok |-> TRUE, v |-> value] or [ok |-> FALSE, e |-> error]
Ok(v) == [ok |-> TRUE, v |-> v, e |-> "Ok"]
Err(e) == [ok |-> FALSE, v |-> 0, e |-> e]

\* Variant of validate_ticket_id that rejects negative ids only
validate_ticket_id_nonneg(id) ==
    LET parsed_id == parse_i64(id)
    IN IF ~IsSome(parsed_id) THEN Err("InvalidTicketId")
       ELSE IF Unwrap(parsed_id) < 0 THEN Err("InvalidTicketId")
       ELSE Ok(Unwrap(parsed_id))

validate_ticket_id(id) ==
    LET parsed_id == parse_i64(id)
    IN IF ~IsSome(parsed_id) THEN Err("InvalidTicketId")
       ELSE IF Unwrap(parsed_id) <= 0 THEN Err("InvalidTicketId")
       ELSE Ok(Unwrap(parsed_id))

validate_time(hours, minutes) ==
    IF hours < 0 \/ hours > 24 \/ minutes < 0 \/ minutes > 59
    THEN Err("InvalidTime")
    ELSE Ok(<<hours, minutes>>)

Str_open == <<"o", "p", "e", "n">>
Str_in_progress == <<"i", "n", "-", "p", "r", "o", "g", "r", "e", "s", "s">>
Str_testing == <<"t", "e", "s", "t", "i", "n", "g">>
Str_blocked == <<"b", "l", "o", "c", "k", "e", "d">>
Str_closed == <<"c", "l", "o", "s", "e", "d">>
Str_cancelled == <<"c", "a", "n", "c", "e", "l", "l", "e", "d">>
Str_completed == <<"c", "o", "m", "p", "l", "e", "t", "e", "d">>
Str_done == <<"d", "o", "n", "e">>

UpperChars ==
    <<"A", "B", "C", "D", "E", "F", "G", "H", "I", "J", "K", "L", "M",
      "N", "O", "P", "Q", "R", "S", "T", "U", "V", "W", "X", "Y", "Z">>
LowerChars ==
    <<"a", "b", "c", "d", "e", "f", "g", "h", "i", "j", "k", "l", "m",
      "n", "o", "p", "q", "r", "s", "t", "u", "v", "w", "x", "y", "z">>

to_lowercase(s) ==
    [i \in 1..Len(s) |->
        IF \E k \in 1..26 : UpperChars[k] = s[i]
        THEN LowerChars[CHOOSE k \in 1..26 : UpperChars[k] = s[i]]
        ELSE s[i]]

valid_statuses ==
    {Str_open, Str_in_progress, Str_testing, Str_blocked, Str_closed, Str_cancelled}

\* Variant of validate_status that returns the text in the case it was given
validate_status_keeping_case(status) ==
    IF to_lowercase(status) \in valid_statuses THEN Ok(status) ELSE Err("InvalidStatus")

\* Variant of validate_status that compares the text as it is given
validate_status_exact(status) ==
    IF status \in valid_statuses THEN Ok(status) ELSE Err("InvalidStatus")

validate_status(status) ==
    LET lowercase_status == to_lowercase(status)
    IN IF lowercase_status \in valid_statuses
       THEN Ok(lowercase_status)
       ELSE Err("InvalidStatus")

ProjectChars == {UpperChars[k] : k \in 1..26} \cup {LowerChars[k] : k \in 1..26}
                    \cup DigitChars \cup {"_", "-"}

validate_project_name(name) ==
    IF name = <<>> \/ Len(name) > 50 THEN Err("InvalidProjectName")
    ELSE IF \E i \in 1..Len(name) : name[i] \notin ProjectChars
         THEN Err("InvalidProjectName")
         ELSE Ok(name)

\* A content string is kept by its sizes: chars = Unicode scalar values,
\* bytes = UTF-8 length (what str::len() returns).
Content(chars, bytes) == [chars |-> chars, bytes |-> bytes]

\* Variant of limits with exclusive upper bounds
limits_exclusive(field_type) ==
    CASE field_type = "TicketName" -> <<1, 99>>
      [] field_type = "Description" -> <<1, 1999>>
      [] field_type = "Comment" -> <<1, 999>>

limits(field_type) ==
    CASE field_type = "TicketName" -> <<1, 100>>
      [] field_type = "Description" -> <<1, 2000>>
      [] field_type = "Comment" -> <<1, 1000>>

validate_content_length(content, field_type) ==
    LET min == limits(field_type)[1]
        max == limits(field_type)[2]
        len == content.bytes
    IN IF len < min \/ len > max
       THEN Err("InvalidContentLength")
       ELSE Ok(content)

----------------------------------------------------------------------------
(* db.rs: the repository.  A command threads a run record r through its     *)
(* calls: the tables, the tracking map, the calls made so far, the error    *)
(* that ended the command ("Ok" while it runs) and r.f, the position of the *)
(* repository call that fails with an I/O error (0: none does).             *)

MutatingOps ==
    {"add_ticket", "update_ticket_status", "update_ticket_name",
     "update_ticket_description", "delete_ticket", "add_comment", "update_comment",
     "delete_comment", "add_time_log", "update_time_log", "delete_time_log",
     "move_ticket_project", "copy_ticket"}

Failed(r) == r.err # "Ok"
Fail(r, e) == [r EXCEPT !.err = e]

\* One repository call: it fails (sqlx error) when it is the call chosen to
\* fail or when a FOREIGN KEY constraint rejects it, and takes effect otherwise.
RepoCall(r, op, id, found, constraint_ok, effect) ==
    IF r.f = Len(r.calls) + 1 \/ ~constraint_ok
    THEN [r EXCEPT !.calls = Append(@, [op |-> op, id |-> id, ok |-> FALSE, found |-> FALSE]),
                   !.err = "Io"]
    ELSE [effect EXCEPT !.calls = Append(@, [op |-> op, id |-> id, ok |-> TRUE, found |-> found])]

HasChildren(r, id) ==
    \/ \E l \in DOMAIN r.time_logs : r.time_logs[l].ticket_id = id
    \/ \E c \in DOMAIN r.comments : r.comments[c].ticket_id = id

add_ticket(r, project, name, description) ==
    RepoCall(r, "add_ticket", r.next_id, FALSE, TRUE,
        [r EXCEPT !.tickets = Insert(@, r.next_id,
                        [project |-> project, name |-> name,
                         description |-> description, status |-> Str_open]),
                  !.next_id = @ + 1])

get_ticket(r, id) ==
    RepoCall(r, "get_ticket", id, id \in DOMAIN r.tickets, TRUE, r)

list_tickets(r) ==
    RepoCall(r, "list_tickets", 0, FALSE, TRUE, r)

list_tickets_filtered(r) ==
    RepoCall(r, "list_tickets_filtered", 0, FALSE, TRUE, r)

update_ticket_status(r, id, status) ==
    RepoCall(r, "update_ticket_status", id, FALSE, TRUE,
        IF id \in DOMAIN r.tickets
        THEN [r EXCEPT !.tickets[id].status = status]
        ELSE r)

update_ticket_name(r, id, name) ==
    RepoCall(r, "update_ticket_name", id, FALSE, TRUE,
        IF id \in DOMAIN r.tickets
        THEN [r EXCEPT !.tickets[id].name = name]
        ELSE r)

update_ticket_description(r, id, description) ==
    RepoCall(r, "update_ticket_description", id, FALSE, TRUE,
        IF id \in DOMAIN r.tickets
        THEN [r EXCEPT !.tickets[id].description = description]
        ELSE r)

delete_ticket(r, id) ==
    RepoCall(r, "delete_ticket", id, FALSE, ~HasChildren(r, id),
        [r EXCEPT !.tickets = Remove(@, id)])

add_comment(r, ticket_id, content) ==
    RepoCall(r, "add_comment", ticket_id, FALSE, ticket_id \in DOMAIN r.tickets,
        [r EXCEPT !.comments = Insert(@, r.next_comment_id,
                        [ticket_id |-> ticket_id, content |-> content]),
                  !.next_comment_id = @ + 1])

get_comments(r, ticket_id) ==
    RepoCall(r, "get_comments", ticket_id, FALSE, TRUE, r)

get_comment(r, comment_id) ==
    RepoCall(r, "get_comment", comment_id, comment_id \in DOMAIN r.comments, TRUE, r)

update_comment(r, comment_id, content) ==
    RepoCall(r, "update_comment", comment_id, FALSE, TRUE,
        IF comment_id \in DOMAIN r.comments
        THEN [r EXCEPT !.comments[comment_id].content = content]
        ELSE r)

delete_comment(r, comment_id) ==
    RepoCall(r, "delete_comment", comment_id, FALSE, TRUE,
        [r EXCEPT !.comments = Remove(@, comment_id)])

\* Variant of add_time_log that does not store ended_at
add_time_log_dropping_end(r, ticket_id, hours, minutes, started_at, ended_at) ==
    RepoCall(r, "add_time_log", ticket_id, FALSE, ticket_id \in DOMAIN r.tickets,
        [r EXCEPT !.time_logs = Insert(@, r.next_log_id,
                        [ticket_id |-> ticket_id, hours |-> hours, minutes |-> minutes,
                         started_at |-> started_at, ended_at |-> None]),
                  !.next_log_id = @ + 1])

add_time_log(r, ticket_id, hours, minutes, started_at, ended_at) ==
    RepoCall(r, "add_time_log", ticket_id, FALSE, ticket_id \in DOMAIN r.tickets,
        [r EXCEPT !.time_logs = Insert(@, r.next_log_id,
                        [ticket_id |-> ticket_id, hours |-> hours, minutes |-> minutes,
                         started_at |-> started_at, ended_at |-> ended_at]),
                  !.next_log_id = @ + 1])

get_project_summary(r) ==
    RepoCall(r, "get_project_summary", 0, FALSE, TRUE, r)

\* The rows of `tickets t LEFT JOIN time_logs tl ON t.id = tl.ticket_id WHERE
\* t.project = ?`: a pair <<t, l>> for each time log l of a ticket t of the
\* project, and <<t, 0>> (tl.* NULL) for a ticket without time logs
SummaryJoin(tks, logs, project) ==
    {row \in (DOMAIN tks) \X ((DOMAIN logs) \cup {0}) :
        /\ tks[row[1]].project = project
        /\ IF row[2] = 0
           THEN \A l \in DOMAIN logs : logs[l].ticket_id # row[1]
           ELSE logs[row[2]].ticket_id = row[1]}

\* SUM(tl.hours + tl.minutes / 60.0) over the rows, in minutes (sixtieths of
\* an hour); a NULL term is skipped
RECURSIVE SummarySum(_, _)
SummarySum(logs, rows) ==
    IF rows = {} THEN 0
    ELSE LET row == CHOOSE x \in rows : TRUE
         IN (IF row[2] = 0 THEN 0
             ELSE 60 * logs[row[2]].hours + logs[row[2]].minutes)
            + SummarySum(logs, rows \ {row})

\* The ProjectSummary that get_project_summary returns; total_time_hours is
\* kept in minutes (sixtieths of an hour)
get_project_summary_row(tks, logs, project) ==
    LET rows == SummaryJoin(tks, logs, project)
    IN IF rows = {}
       THEN [project |-> project, total_tickets |-> 0, open_tickets |-> 0,
             closed_tickets |-> 0, total_time_hours |-> 0]
       ELSE [project |-> project,
             total_tickets |-> Cardinality(rows),
             open_tickets |->
                 Cardinality({row \in rows : tks[row[1]].status = Str_open}),
             closed_tickets |->
                 Cardinality({row \in rows : tks[row[1]].status = Str_closed}),
             total_time_hours |-> SummarySum(logs, rows)]

\* Variant of get_project_summary_row that counts the tickets of the join
get_project_summary_distinct(tks, logs, project) ==
    LET rows == SummaryJoin(tks, logs, project)
        ids == {row[1] : row \in rows}
    IN [project |-> project,
        total_tickets |-> Cardinality(ids),
        open_tickets |-> Cardinality({t \in ids : tks[t].status = Str_open}),
        closed_tickets |-> Cardinality({t \in ids : tks[t].status = Str_closed}),
        total_time_hours |-> SummarySum(logs, rows)]

get_time_logs(r, ticket_id) ==
    RepoCall(r, "get_time_logs", ticket_id, FALSE, TRUE, r)

update_time_log(r, log_id, hours, minutes) ==
    RepoCall(r, "update_time_log", log_id, FALSE, TRUE,
        IF log_id \in DOMAIN r.time_logs
        THEN [r EXCEPT !.time_logs[log_id].hours = hours,
                       !.time_logs[log_id].minutes = minutes]
        ELSE r)

delete_time_log(r, log_id) ==
    RepoCall(r, "delete_time_log", log_id, FALSE, TRUE,
        [r EXCEPT !.time_logs = Remove(@, log_id)])

move_ticket_project(r, id, project) ==
    RepoCall(r, "move_ticket_project", id, FALSE, TRUE,
        IF id \in DOMAIN r.tickets
        THEN [r EXCEPT !.tickets[id].project = project]
        ELSE r)

\* copy_ticket reads the source row itself and fails when it is missing
copy_ticket(r, id, target_project) ==
    RepoCall(r, "copy_ticket", id, FALSE, id \in DOMAIN r.tickets,
        [r EXCEPT !.tickets = Insert(@, r.next_id,
                        [r.tickets[id] EXCEPT !.project = UnwrapOr(target_project, @)]),
                  !.next_id = @ + 1])

----------------------------------------------------------------------------
(* commands.rs: TimeTrackingState and the helpers of CommandHandler *)

TimeTrackingState_new(start_time) ==
    [start_time |-> start_time, paused_at |-> None, elapsed_time |-> None]

is_paused(state) == IsSome(state.paused_at)

\* CommandHandler::new(db): a handler that tracks nothing yet
CommandHandler_restoring(r) == r

CommandHandler_new(r) == [r EXCEPT !.time_tracking = EmptyMap]

\* Variant of insert_timer that keeps the entry a ticket already has
insert_timer_if_absent(r, ticket_id, t) ==
    IF ticket_id \in DOMAIN r.time_tracking THEN r
    ELSE [r EXCEPT !.time_tracking = Insert(@, ticket_id, TimeTrackingState_new(t)),
                   !.started = @ \cup {ticket_id}]

\* self.time_tracking.insert(id, TimeTrackingState::new(Utc::now()))
insert_timer(r, ticket_id, t) ==
    [r EXCEPT !.time_tracking = Insert(@, ticket_id, TimeTrackingState_new(t)),
              !.started = @ \cup {ticket_id}]

\* interactive::confirm_destructive_action: the answer, or an I/O error of the prompt
ConfirmAnswers == {"yes", "no", "err"}

validate_ticket_exists(r, ticket_id) ==
    LET r1 == get_ticket(r, ticket_id)
    IN IF Failed(r1) THEN [r1 EXCEPT !.err = "TicketNotFound"]
       ELSE IF ticket_id \notin DOMAIN r1.tickets THEN Fail(r1, "TicketNotFound")
       ELSE r1

\* Variant of handle_command that propagates every error of the command
handle_command_propagating(err) ==
    IF err = "Panic" THEN "Panic"
    ELSE IF err = "Ok" THEN "Ok"
    ELSE "Err"

\* "Ok": Ok(()); "Err": Err(e), a failing exit; "Panic": the process aborted
handle_command(err) ==
    IF err = "Panic" THEN "Panic"
    ELSE IF err \in ValidationErrors THEN "Ok"
    ELSE IF err = "Ok" THEN "Ok"
    ELSE "Err"

update_ticket_status_internal(r, ticket_id, status, force, confirm) ==
    LET r1 == get_ticket(r, ticket_id)
    IN IF Failed(r1) THEN r1
       ELSE IF ticket_id \notin DOMAIN r1.tickets THEN r1
       ELSE IF ~force /\ confirm = "err" THEN Fail(r1, "Other")
       ELSE IF ~force /\ confirm = "no" THEN r1
       ELSE update_ticket_status(r1, ticket_id, status)

\* Variant of total_duration that runs the open segment up to end_time even
\* when the timer is paused
total_duration_counting_pause(state, end_time) ==
    UnwrapOr(state.elapsed_time, 0) + (end_time - state.start_time)

\* The duration Stop, `log --end` and the active-timer display compute
total_duration(state, end_time) ==
    UnwrapOr(state.elapsed_time, 0)
        + (IF IsSome(state.paused_at)
           THEN Unwrap(state.paused_at) - state.start_time
           ELSE end_time - state.start_time)

duration_hours(total) == AsI32(num_hours(total))
\* Variant of duration_minutes that keeps the whole minutes of the total
duration_minutes_whole(total) == AsI32(num_minutes(total))

duration_minutes(total) == AsI32(TruncRem(num_minutes(total), 60))

\* Variant of stop_time_tracking_internal whose log starts elapsed_time before
\* the start of the last segment
stop_time_tracking_backdated(r, ticket_id, t) ==
    IF ticket_id \in DOMAIN r.time_tracking
    THEN LET state == r.time_tracking[ticket_id]
             r1 == [r EXCEPT !.time_tracking = Remove(@, ticket_id)]
             total == total_duration(state, t)
             r2 == add_time_log(r1, ticket_id, duration_hours(total),
                                duration_minutes(total),
                                Some(state.start_time - UnwrapOr(state.elapsed_time, 0)),
                                Some(t))
         IN IF Failed(r2) THEN r2 ELSE get_ticket(r2, ticket_id)
    ELSE r

\* Variant of stop_time_tracking_internal for which an absent entry is an error
stop_time_tracking_strict(r, ticket_id, t) ==
    IF ticket_id \in DOMAIN r.time_tracking
    THEN LET state == r.time_tracking[ticket_id]
             r1 == [r EXCEPT !.time_tracking = Remove(@, ticket_id)]
             total == total_duration(state, t)
             r2 == add_time_log(r1, ticket_id, duration_hours(total),
                                duration_minutes(total),
                                Some(state.start_time), Some(t))
         IN IF Failed(r2) THEN r2 ELSE get_ticket(r2, ticket_id)
    ELSE Fail(r, "Other")

stop_time_tracking_internal(r, ticket_id, t) ==
    IF ticket_id \in DOMAIN r.time_tracking
    THEN LET state == r.time_tracking[ticket_id]
             r1 == [r EXCEPT !.time_tracking = Remove(@, ticket_id)]
             end_time == t
             total == total_duration(state, end_time)
             hours == duration_hours(total)
             minutes == duration_minutes(total)
             r2 == add_time_log(r1, ticket_id, hours, minutes,
                                Some(state.start_time), Some(end_time))
         IN IF Failed(r2) THEN r2 ELSE get_ticket(r2, ticket_id)
    ELSE r

\* The loop of stop_all_active_timers over the snapshot `order`
RECURSIVE stop_each(_, _, _)
stop_each(r, order, t) ==
    IF order = <<>> THEN r
    ELSE LET r1 == stop_time_tracking_internal(r, Head(order), t)
         IN IF Failed(r1) THEN r1 ELSE stop_each(r1, Tail(order), t)

stop_all_active_timers(r, order, t) ==
    IF order = <<>> THEN r ELSE stop_each(r, order, t)

\* Variant of cancel_time_tracking_internal that leaves the entry in the map
cancel_time_tracking_keeping(r, ticket_id) ==
    IF ticket_id \in DOMAIN r.time_tracking
    THEN get_ticket(r, ticket_id)
    ELSE r

cancel_time_tracking_internal(r, ticket_id) ==
    IF ticket_id \in DOMAIN r.time_tracking
    THEN get_ticket([r EXCEPT !.time_tracking = Remove(@, ticket_id)], ticket_id)
    ELSE r

RECURSIVE cancel_each(_, _)
cancel_each(r, order) ==
    IF order = <<>> THEN r
    ELSE LET r1 == cancel_time_tracking_internal(r, Head(order))
         IN IF Failed(r1) THEN r1 ELSE cancel_each(r1, Tail(order))

cancel_all_active_timers(r, order) ==
    IF order = <<>> THEN r ELSE cancel_each(r, order)

\* Variant of pause_time_tracking_internal without the is_paused early return
pause_time_tracking_always(r, ticket_id, t) ==
    IF ticket_id \in DOMAIN r.time_tracking
    THEN get_ticket([r EXCEPT !.time_tracking[ticket_id].paused_at = Some(t)], ticket_id)
    ELSE r

\* Variant of pause_time_tracking_internal that pauses every running timer
pause_time_tracking_every(r, ticket_id, t) ==
    IF ticket_id \in DOMAIN r.time_tracking
    THEN IF is_paused(r.time_tracking[ticket_id])
         THEN r
         ELSE get_ticket(
                  [r EXCEPT !.time_tracking =
                      [id \in DOMAIN @ |->
                          IF is_paused(@[id]) THEN @[id]
                          ELSE [@[id] EXCEPT !.paused_at = Some(t)]]],
                  ticket_id)
    ELSE r

pause_time_tracking_internal(r, ticket_id, t) ==
    IF ticket_id \in DOMAIN r.time_tracking
    THEN IF is_paused(r.time_tracking[ticket_id])
         THEN r
         ELSE get_ticket([r EXCEPT !.time_tracking[ticket_id].paused_at = Some(t)],
                         ticket_id)
    ELSE r

\* Variant of resume_time_tracking_internal that keeps only the last segment
resume_time_tracking_overwriting(r, ticket_id, t) ==
    IF ticket_id \in DOMAIN r.time_tracking
    THEN LET state == r.time_tracking[ticket_id]
         IN IF ~is_paused(state)
            THEN r
            ELSE get_ticket(
                     [r EXCEPT !.time_tracking[ticket_id] =
                         [start_time |-> t, paused_at |-> None,
                          elapsed_time |->
                              Some(Unwrap(state.paused_at) - state.start_time)]],
                     ticket_id)
    ELSE r

\* Variant of resume_time_tracking_internal that keeps the old start_time
resume_time_tracking_keeping_start(r, ticket_id, t) ==
    IF ticket_id \in DOMAIN r.time_tracking
    THEN LET state == r.time_tracking[ticket_id]
         IN IF ~is_paused(state)
            THEN r
            ELSE LET paused_at == Unwrap(state.paused_at)
                     current_elapsed == paused_at - state.start_time
                     elapsed == IF IsSome(state.elapsed_time)
                                THEN Unwrap(state.elapsed_time) + current_elapsed
                                ELSE current_elapsed
                 IN get_ticket(
                        [r EXCEPT !.time_tracking[ticket_id] =
                            [start_time |-> state.start_time, paused_at |-> None,
                             elapsed_time |-> Some(elapsed)]],
                        ticket_id)
    ELSE r

resume_time_tracking_internal(r, ticket_id, t) ==
    IF ticket_id \in DOMAIN r.time_tracking
    THEN LET state == r.time_tracking[ticket_id]
         IN IF ~is_paused(state)
            THEN r
            ELSE LET paused_at == Unwrap(state.paused_at)
                     current_elapsed == paused_at - state.start_time
                     elapsed == IF IsSome(state.elapsed_time)
                                THEN Unwrap(state.elapsed_time) + current_elapsed
                                ELSE current_elapsed
                 IN get_ticket(
                        [r EXCEPT !.time_tracking[ticket_id] =
                            [start_time |-> t, paused_at |-> None,
                             elapsed_time |-> Some(elapsed)]],
                        ticket_id)
    ELSE r

\* Variant of active_timer_line that runs the open segment up to t even when
\* the timer is paused
active_timer_line_running(ticket_id, state, t) ==
    LET total == UnwrapOr(state.elapsed_time, 0) + (t - state.start_time)
    IN [ticket_id |-> ticket_id,
        hours |-> num_hours(total),
        minutes |-> TruncRem(num_minutes(total), 60),
        paused |-> is_paused(state)]

\* The line handle_show_active_timers prints for an entry at instant t
active_timer_line(ticket_id, state, t) ==
    LET total == total_duration(state, t)
    IN [ticket_id |-> ticket_id,
        hours |-> num_hours(total),
        minutes |-> TruncRem(num_minutes(total), 60),
        paused |-> is_paused(state)]

\* handle_show_active_timers: one get_ticket and one line per entry, in the
\* map's order; `shown` collects the lines printed
RECURSIVE show_each(_, _, _)
show_each(r, order, t) ==
    IF order = <<>> THEN r
    ELSE LET r1 == get_ticket(r, Head(order))
         IN IF Failed(r1) THEN r1
            ELSE show_each(
                     [r1 EXCEPT !.shown =
                         Append(@, active_timer_line(Head(order),
                                                     r1.time_tracking[Head(order)], t))],
                     Tail(order), t)

handle_show_active_timers(r, order, t) == show_each(r, order, t)

----------------------------------------------------------------------------
(* commands.rs: parse_duration *)

Contains(s, c) == \E i \in 1..Len(s) : s[i] = c

\* str::find(c): the 0-based position of the first c
Find(s, c) == (CHOOSE i \in 1..Len(s) : s[i] = c /\ \A j \in 1..(i - 1) : s[j] # c) - 1

\* &s[a..b] with 0-based byte positions (the inputs are ASCII)
Slice(s, a, b) == SubSeq(s, a + 1, b)

RECURSIVE Pow10(_)
Pow10(n) == IF n = 0 THEN 1 ELSE 10 * Pow10(n - 1)

AllDigits(s) == \A i \in 1..Len(s) : s[i] \in DigitChars

\* str::parse::<f64>() for the forms without exponent: [sign] digits [. digits],
\* [sign] . digits, and the special values.  A number is kept exactly, as
\* sign * (int + num / den); the inputs of the model have fractions that f64
\* represents exactly, so that f64 arithmetic on them is exact as well.
parse_f64(s) ==
    LET signed == Len(s) > 0 /\ s[1] \in {"+", "-"}
        neg == Len(s) > 0 /\ s[1] = "-"
        body == IF signed THEN Tail(s) ELSE s
        low == to_lowercase(body)
        dot == IF Contains(body, ".") THEN Find(body, ".") ELSE Len(body)
        ip == Slice(body, 0, dot)
        fp == IF Contains(body, ".") THEN Slice(body, dot + 1, Len(body)) ELSE <<>>
    IN IF low = <<"n", "a", "n">> THEN Some([kind |-> "nan", neg |-> neg, int |-> 0, num |-> 0, den |-> 1])
       ELSE IF low = <<"i", "n", "f">> \/ low = <<"i", "n", "f", "i", "n", "i", "t", "y">>
            THEN Some([kind |-> "inf", neg |-> neg, int |-> 0, num |-> 0, den |-> 1])
       ELSE IF AllDigits(ip) /\ AllDigits(fp) /\ Len(ip) + Len(fp) > 0
            THEN Some([kind |-> "num", neg |-> neg, int |-> DecValue(ip),
                       num |-> DecValue(fp), den |-> Pow10(Len(fp))])
       ELSE None

\* decimal_hours.floor() as i32 (the cast saturates, and maps NaN to 0)
f64_floor_as_i32(d) ==
    CASE d.kind = "nan" -> 0
      [] d.kind = "inf" -> IF d.neg THEN I32Min ELSE I32Max
      [] OTHER -> IF d.neg
                  THEN IF d.num = 0 THEN -d.int ELSE -d.int - 1
                  ELSE d.int

\* ((decimal_hours - decimal_hours.floor()) * 60.0) as i32; inf - inf is NaN
f64_fract_minutes(d) ==
    CASE d.kind = "nan" -> 0
      [] d.kind = "inf" -> 0
      [] OTHER -> IF d.neg /\ d.num # 0
                  THEN ((d.den - d.num) * 60) \div d.den
                  ELSE (d.num * 60) \div d.den

parse_duration(duration) ==
    IF Contains(duration, "h") \/ Contains(duration, "m")
    THEN LET h == IF Contains(duration, "h")
                  THEN parse_i32(Slice(duration, 0, Find(duration, "h")))
                  ELSE None
             hours == UnwrapOr(h, 0)
             start == IF Contains(duration, "h") THEN Find(duration, "h") + 1 ELSE 0
             panics == Contains(duration, "m") /\ start > Find(duration, "m")
             m == IF Contains(duration, "m") /\ ~panics
                  THEN parse_i32(Slice(duration, start, Find(duration, "m")))
                  ELSE None
             minutes == UnwrapOr(m, 0)
         IN IF panics THEN Err("Panic")
            ELSE IF ~validate_time(hours, minutes).ok THEN Err("InvalidTime")
            ELSE Ok(<<hours, minutes>>)
    ELSE LET d == parse_f64(duration)
         IN IF IsSome(d)
            THEN LET hours == f64_floor_as_i32(Unwrap(d))
                     minutes == f64_fract_minutes(Unwrap(d))
                 IN IF ~validate_time(hours, minutes).ok THEN Err("InvalidTime")
                    ELSE Ok(<<hours, minutes>>)
            ELSE Err("Other")

----------------------------------------------------------------------------
(* commands.rs: handle_time_action and the `start` shortcut *)

TimeAction_Start(r, ticket_id, t) ==
    LET v == validate_ticket_id(ticket_id)
    IN IF ~v.ok THEN Fail(r, v.e)
       ELSE LET r1 == validate_ticket_exists(r, v.v)
            IN IF Failed(r1) THEN r1 ELSE insert_timer(r1, v.v, t)

TimeAction_Stop(r, ticket_id, t) ==
    LET v == validate_ticket_id(ticket_id)
    IN IF ~v.ok THEN Fail(r, v.e)
       ELSE stop_time_tracking_internal(r, v.v, t)

TimeAction_Cancel(r, ticket_id) ==
    LET v == validate_ticket_id(ticket_id)
    IN IF ~v.ok THEN Fail(r, v.e)
       ELSE cancel_time_tracking_internal(r, v.v)

TimeAction_Pause(r, ticket_id, t) ==
    LET v == validate_ticket_id(ticket_id)
    IN IF ~v.ok THEN Fail(r, v.e)
       ELSE pause_time_tracking_internal(r, v.v, t)

TimeAction_Resume(r, ticket_id, t) ==
    LET v == validate_ticket_id(ticket_id)
    IN IF ~v.ok THEN Fail(r, v.e)
       ELSE resume_time_tracking_internal(r, v.v, t)

Commands_Start(r, ticket_id, t) ==
    LET v == validate_ticket_id(ticket_id)
    IN IF ~v.ok THEN Fail(r, v.e)
       ELSE LET r1 == validate_ticket_exists(r, v.v)
            IN IF Failed(r1) THEN r1
               ELSE LET r2 == update_ticket_status_internal(r1, v.v, Str_in_progress,
                                                            TRUE, "yes")
                    IN IF Failed(r2) THEN r2 ELSE insert_timer(r2, v.v, t)

----------------------------------------------------------------------------
(* commands.rs: the internal helpers behind the ticket, comment and time commands *)

\* format!("Blocked: {}", content)
BlockedComment(content) == Content(content.chars + 9, content.bytes + 9)

\* suggestions::suggest_project_names: one list_tickets round trip
suggest_project_names(r) == list_tickets(r)

create_ticket_internal(r, project, name, description) ==
    LET vp == validate_project_name(project)
        vn == validate_content_length(name, "TicketName")
        vd == validate_content_length(description, "Description")
    IN IF ~vp.ok THEN Fail(r, vp.e)
       ELSE IF ~vn.ok THEN Fail(r, vn.e)
       ELSE IF ~vd.ok THEN Fail(r, vd.e)
       ELSE LET r1 == suggest_project_names(r)
            IN IF Failed(r1) THEN r1 ELSE add_ticket(r1, vp.v, vn.v, vd.v)

list_tickets_internal(r, project) ==
    IF IsSome(project) /\ ~validate_project_name(Unwrap(project)).ok
    THEN Fail(r, "InvalidProjectName")
    ELSE list_tickets_filtered(r)

show_ticket_internal(r, ticket_id) ==
    LET v == validate_ticket_id(ticket_id)
    IN IF ~v.ok THEN Fail(r, v.e)
       ELSE LET r1 == get_ticket(r, v.v)
            IN IF Failed(r1) THEN r1
               ELSE IF v.v \notin DOMAIN r1.tickets THEN Fail(r1, "TicketNotFound")
               ELSE LET r2 == get_comments(r1, v.v)
                    IN IF Failed(r2) THEN r2 ELSE get_time_logs(r2, v.v)

update_ticket_field_internal(r, ticket_id, field, content, status, confirm) ==
    LET v == validate_ticket_id(ticket_id)
    IN IF ~v.ok THEN Fail(r, v.e)
       ELSE LET r1 == validate_ticket_exists(r, v.v)
            IN IF Failed(r1) THEN r1
               ELSE CASE field = "name" ->
                         LET vn == validate_content_length(content, "TicketName")
                         IN IF ~vn.ok THEN Fail(r1, vn.e)
                            ELSE update_ticket_name(r1, v.v, vn.v)
                      [] field = "description" ->
                         LET vd == validate_content_length(content, "Description")
                         IN IF ~vd.ok THEN Fail(r1, vd.e)
                            ELSE update_ticket_description(r1, v.v, vd.v)
                      [] field = "status" ->
                         LET vs == validate_status(status)
                         IN IF ~vs.ok THEN Fail(r1, vs.e)
                            ELSE update_ticket_status_internal(r1, v.v, vs.v, FALSE, confirm)
                      [] OTHER -> r1

delete_ticket_internal(r, ticket_id, force, confirm) ==
    LET v == validate_ticket_id(ticket_id)
    IN IF ~v.ok THEN Fail(r, v.e)
       ELSE LET r1 == validate_ticket_exists(r, v.v)
            IN IF Failed(r1) THEN r1
               ELSE LET r2 == get_ticket(r1, v.v)
                    IN IF Failed(r2) THEN r2
                       ELSE IF v.v \notin DOMAIN r2.tickets THEN r2
                       ELSE IF ~force /\ confirm = "err" THEN Fail(r2, "Other")
                       ELSE IF ~force /\ confirm = "no" THEN r2
                       ELSE delete_ticket(r2, v.v)

move_ticket_internal(r, ticket_id, project) ==
    LET v == validate_ticket_id(ticket_id)
        vp == validate_project_name(project)
    IN IF ~v.ok THEN Fail(r, v.e)
       ELSE IF ~vp.ok THEN Fail(r, vp.e)
       ELSE LET r1 == validate_ticket_exists(r, v.v)
            IN IF Failed(r1) THEN r1 ELSE move_ticket_project(r1, v.v, vp.v)

copy_ticket_internal(r, ticket_id, project) ==
    LET v == validate_ticket_id(ticket_id)
    IN IF ~v.ok THEN Fail(r, v.e)
       ELSE LET r1 == validate_ticket_exists(r, v.v)
            IN IF Failed(r1) THEN r1
               ELSE IF IsSome(project) /\ ~validate_project_name(Unwrap(project)).ok
               THEN Fail(r1, "InvalidProjectName")
               ELSE copy_ticket(r1, v.v, project)

add_comment_internal(r, ticket_id, content) ==
    LET v == validate_ticket_id(ticket_id)
        vc == validate_content_length(content, "Comment")
    IN IF ~v.ok THEN Fail(r, v.e)
       ELSE IF ~vc.ok THEN Fail(r, vc.e)
       ELSE LET r1 == validate_ticket_exists(r, v.v)
            IN IF Failed(r1) THEN r1
               ELSE LET r2 == get_ticket(r1, v.v)
                    IN IF Failed(r2) THEN r2
                       ELSE IF v.v \notin DOMAIN r2.tickets THEN r2
                       ELSE add_comment(r2, v.v, vc.v)

list_comments_internal(r, ticket_id) ==
    LET v == validate_ticket_id(ticket_id)
    IN IF ~v.ok THEN Fail(r, v.e)
       ELSE LET r1 == validate_ticket_exists(r, v.v)
            IN IF Failed(r1) THEN r1 ELSE get_comments(r1, v.v)

show_project_summary_internal(r, project, json) ==
    LET vp == validate_project_name(project)
    IN IF ~vp.ok THEN Fail(r, vp.e)
       ELSE LET r1 == get_project_summary(r)
                total_tickets ==
                    Cardinality({id \in DOMAIN r.tickets : r.tickets[id].project = vp.v})
            IN IF Failed(r1) THEN r1
               ELSE IF json THEN r1
               ELSE IF total_tickets = 0 THEN suggest_project_names(r1)
               ELSE r1

handle_list_projects(r) == list_tickets(r)

log_time_duration_internal(r, ticket_id, duration) ==
    LET v == validate_ticket_id(ticket_id)
    IN IF ~v.ok THEN Fail(r, v.e)
       ELSE LET r1 == validate_ticket_exists(r, v.v)
            IN IF Failed(r1) THEN r1
               ELSE LET d == parse_duration(duration)
                    IN IF ~d.ok THEN Fail(r1, d.e)
                       ELSE LET r2 == add_time_log(r1, v.v, d.v[1], d.v[2], None, None)
                            IN IF Failed(r2) THEN r2 ELSE get_ticket(r2, v.v)

----------------------------------------------------------------------------
(* commands.rs: the remaining arms of handle_command_with_validation,        *)
(* handle_comment_action, handle_time_action and handle_update_target        *)

Commands_Init(r) == RepoCall(r, "init_db", 0, FALSE, TRUE, r)

Commands_Open(r, ticket_id) ==
    LET v == validate_ticket_id(ticket_id)
    IN IF ~v.ok THEN Fail(r, v.e)
       ELSE LET r1 == validate_ticket_exists(r, v.v)
            IN IF Failed(r1) THEN r1
               ELSE update_ticket_status_internal(r1, v.v, Str_open, TRUE, "yes")

Commands_Complete(r, ticket_id) ==
    LET v == validate_ticket_id(ticket_id)
    IN IF ~v.ok THEN Fail(r, v.e)
       ELSE LET r1 == validate_ticket_exists(r, v.v)
            IN IF Failed(r1) THEN r1
               ELSE update_ticket_status_internal(r1, v.v, Str_completed, TRUE, "yes")

Commands_Block(r, ticket_id, reason) ==
    LET v == validate_ticket_id(ticket_id)
    IN IF ~v.ok THEN Fail(r, v.e)
       ELSE LET r1 == validate_ticket_exists(r, v.v)
            IN IF Failed(r1) THEN r1
               ELSE LET r2 == update_ticket_status_internal(r1, v.v, Str_blocked, TRUE, "yes")
                    IN IF Failed(r2) THEN r2
                       ELSE IF IsSome(reason)
                       THEN LET vc == validate_content_length(Unwrap(reason), "Comment")
                            IN IF ~vc.ok THEN Fail(r2, vc.e)
                               ELSE add_comment(r2, v.v, BlockedComment(vc.v))
                       ELSE r2

Commands_Close(r, ticket_id, status, force, confirm) ==
    LET v == validate_ticket_id(ticket_id)
        final_status == UnwrapOr(status, Str_closed)
        vs == validate_status(final_status)
    IN IF ~v.ok THEN Fail(r, v.e)
       ELSE IF ~vs.ok THEN Fail(r, vs.e)
       ELSE LET r1 == validate_ticket_exists(r, v.v)
            IN IF Failed(r1) THEN r1
               ELSE update_ticket_status_internal(r1, v.v, vs.v, force, confirm)

Commands_Status(r, ticket_id, status, force, confirm) ==
    LET v == validate_ticket_id(ticket_id)
        vs == validate_status(status)
    IN IF ~v.ok THEN Fail(r, v.e)
       ELSE IF ~vs.ok THEN Fail(r, vs.e)
       ELSE LET r1 == validate_ticket_exists(r, v.v)
            IN IF Failed(r1) THEN r1
               ELSE update_ticket_status_internal(r1, v.v, vs.v, force, confirm)

UpdateTarget_Status(r, ticket_id, status, force, confirm) ==
    LET v == validate_ticket_id(ticket_id)
        vs == validate_status(status)
    IN IF ~v.ok THEN Fail(r, v.e)
       ELSE IF ~vs.ok THEN Fail(r, vs.e)
       ELSE LET r1 == validate_ticket_exists(r, v.v)
            IN IF Failed(r1) THEN r1
               ELSE update_ticket_status_internal(r1, v.v, vs.v, force, confirm)

Commands_Delete(r, ticket_id, force, confirm) ==
    LET v == validate_ticket_id(ticket_id)
    IN IF ~v.ok THEN Fail(r, v.e)
       ELSE LET r1 == validate_ticket_exists(r, v.v)
            IN IF Failed(r1) THEN r1
               ELSE LET r2 == get_ticket(r1, v.v)
                    IN IF Failed(r2) THEN r2
                       ELSE IF v.v \notin DOMAIN r2.tickets THEN Fail(r2, "TicketNotFound")
                       ELSE IF ~force /\ confirm = "err" THEN Fail(r2, "Other")
                       ELSE IF ~force /\ confirm = "no" THEN r2
                       ELSE delete_ticket(r2, v.v)

Commands_Log(r, ticket_id, hours, minutes, start, end, t) ==
    LET v == validate_ticket_id(ticket_id)
    IN IF ~v.ok THEN Fail(r, v.e)
       ELSE LET r1 == validate_ticket_exists(r, v.v)
            IN IF Failed(r1) THEN r1
               ELSE LET r2 == get_ticket(r1, v.v)
                    IN IF Failed(r2) THEN r2
                       ELSE IF v.v \notin DOMAIN r2.tickets THEN Fail(r2, "TicketNotFound")
                       ELSE IF start THEN insert_timer(r2, v.v, t)
                       ELSE IF end
                       THEN IF v.v \in DOMAIN r2.time_tracking
                            THEN LET state == r2.time_tracking[v.v]
                                     r3 == [r2 EXCEPT !.time_tracking = Remove(@, v.v)]
                                     end_time == t
                                     total == total_duration(state, end_time)
                                 IN add_time_log(r3, v.v, duration_hours(total),
                                                 duration_minutes(total),
                                                 Some(state.start_time), Some(end_time))
                            ELSE r2
                       ELSE IF IsSome(hours) /\ IsSome(minutes)
                       THEN add_time_log(r2, v.v, Unwrap(hours), Unwrap(minutes), None, None)
                       ELSE r2

CommentAction_Show(r, comment_id) ==
    LET v == validate_ticket_id(comment_id)
    IN IF ~v.ok THEN Fail(r, v.e) ELSE get_comment(r, v.v)

CommentAction_Update(r, comment_id, content) ==
    LET v == validate_ticket_id(comment_id)
        vc == validate_content_length(content, "Comment")
    IN IF ~v.ok THEN Fail(r, v.e)
       ELSE IF ~vc.ok THEN Fail(r, vc.e)
       ELSE update_comment(r, v.v, vc.v)

CommentAction_Delete(r, comment_id, confirm) ==
    LET v == validate_ticket_id(comment_id)
    IN IF ~v.ok THEN Fail(r, v.e)
       ELSE IF confirm = "err" THEN Fail(r, "Other")
       ELSE IF confirm = "no" THEN r
       ELSE delete_comment(r, v.v)

TimeAction_List(r, ticket_id) ==
    LET v == validate_ticket_id(ticket_id)
    IN IF ~v.ok THEN Fail(r, v.e)
       ELSE LET r1 == validate_ticket_exists(r, v.v)
            IN IF Failed(r1) THEN r1 ELSE get_time_logs(r1, v.v)

TimeAction_Summary(r, ticket_id) ==
    LET v == validate_ticket_id(ticket_id)
    IN IF ~v.ok THEN Fail(r, v.e)
       ELSE LET r1 == validate_ticket_exists(r, v.v)
            IN IF Failed(r1) THEN r1 ELSE get_time_logs(r1, v.v)

TimeAction_Update(r, log_id, duration) ==
    LET v == validate_ticket_id(log_id)
        d == parse_duration(duration)
    IN IF ~v.ok THEN Fail(r, v.e)
       ELSE IF ~d.ok THEN Fail(r, d.e)
       ELSE update_time_log(r, v.v, d.v[1], d.v[2])

TimeAction_Delete(r, log_id, confirm) ==
    LET v == validate_ticket_id(log_id)
    IN IF ~v.ok THEN Fail(r, v.e)
       ELSE IF confirm = "err" THEN Fail(r, "Other")
       ELSE IF confirm = "no" THEN r
       ELSE delete_time_log(r, v.v)

----------------------------------------------------------------------------
(* The state machine *)

DefaultRow ==
    [project |-> <<"p">>, name |-> Content(4, 4), description |-> Content(4, 4),
     status |-> Str_open]

NoCommand ==
    [cmd |-> "none", target |-> 0, tracked |-> FALSE, order |-> <<>>,
     calls |-> <<>>, shown |-> <<>>, inner |-> "Ok", result |-> "Ok"]

NoCall ==
    [fn |-> "none", input |-> <<>>, form |-> "", h |-> 0, m |-> 0,
     kind |-> "", chars |-> 0, bytes |-> 0]

\* A Result as `ret` holds it: the value of an Ok as Some(value)
Returned(x) == [ok |-> x.ok, v |-> IF x.ok THEN Some(x.v) ELSE None, e |-> x.e]

\* CommandHandler::new over a database that holds tickets 1..n
InitWith(n) ==
    /\ tickets = [id \in 1..n |-> DefaultRow]
    /\ next_id = n + 1
    /\ time_logs = EmptyMap
    /\ next_log_id = 1
    /\ comments = EmptyMap
    /\ next_comment_id = 1
    /\ time_tracking = EmptyMap
    /\ now = 0
    /\ run_secs = EmptyMap
    /\ last = NoCommand
    /\ arg = NoCall
    /\ ret = Returned(Err("none"))

Begin(f) ==
    [tickets |-> tickets, next_id |-> next_id, time_logs |-> time_logs,
     next_log_id |-> next_log_id, comments |-> comments,
     next_comment_id |-> next_comment_id, time_tracking |-> time_tracking,
     calls |-> <<>>, err |-> "Ok", f |-> f, started |-> {}, shown |-> <<>>]

TargetOf(ticket_id) ==
    LET v == validate_ticket_id(ticket_id) IN IF v.ok THEN v.v ELSE 0

\* The command has run: its effects, and handle_command's verdict on its result
Commit(cmd, target, order, r) ==
    /\ last.cmd = "none"
    /\ tickets' = r.tickets
    /\ next_id' = r.next_id
    /\ time_logs' = r.time_logs
    /\ next_log_id' = r.next_log_id
    /\ comments' = r.comments
    /\ next_comment_id' = r.next_comment_id
    /\ time_tracking' = r.time_tracking
    /\ run_secs' = [id \in DOMAIN r.time_tracking |->
                        IF id \in r.started \/ id \notin DOMAIN run_secs
                        THEN 0 ELSE run_secs[id]]
    /\ last' = [cmd |-> cmd, target |-> target,
                tracked |-> target \in DOMAIN time_tracking,
                order |-> order, calls |-> r.calls, shown |-> r.shown,
                inner |-> r.err, result |-> handle_command(r.err)]
    /\ UNCHANGED <<now, arg, ret>>

\* Time passes: the clock moves to a later instant of `instants`
Tick(instants) ==
    \E t \in instants :
        /\ last.cmd = "none"
        /\ t > now
        /\ now' = t
        /\ run_secs' = [id \in DOMAIN run_secs |->
                            IF is_paused(time_tracking[id])
                            THEN run_secs[id]
                            ELSE run_secs[id] + (t - now)]
        /\ UNCHANGED <<tickets, next_id, time_logs, next_log_id, comments,
                       next_comment_id, time_tracking, last, arg, ret>>

\* handle_command has returned its result to the caller; the handler is
\* ready for the next command
Return ==
    /\ last.cmd # "none"
    /\ last' = NoCommand
    /\ UNCHANGED <<tickets, next_id, time_logs, next_log_id, comments,
                   next_comment_id, time_tracking, now, run_secs, arg, ret>>

\* The orders in which a HashMap may yield its keys
Orders(m) ==
    {o \in [1..Cardinality(DOMAIN m) -> DOMAIN m] :
        \A i, j \in 1..Cardinality(DOMAIN m) : o[i] = o[j] => i = j}

FailPoints == 0..MaxFailPoint

\* The positions at which a command of at most n repository calls can fail
Fails(n) == 0..(IF n < MaxFailPoint THEN n ELSE MaxFailPoint)

\* Room for n more time logs within a model bound of cap logs
LogRoomOf(cap, n) == next_log_id + n - 1 <= cap
LogRoom(n) == LogRoomOf(MaxLogs, n)

CmdTimeStart(ticket_id, f) ==
    Commit("time start", TargetOf(ticket_id), <<>>,
           TimeAction_Start(Begin(f), ticket_id, now))

CmdTimeStop(cap, ticket_id, f) ==
    /\ LogRoomOf(cap, 1)
    /\ Commit("time stop", TargetOf(ticket_id), <<>>,
              TimeAction_Stop(Begin(f), ticket_id, now))

CmdTimeStopAll(cap, f) ==
    /\ LogRoomOf(cap, Cardinality(DOMAIN time_tracking))
    /\ \E order \in Orders(time_tracking) :
          Commit("time stop all", 0, order,
                 stop_all_active_timers(Begin(f), order, now))

CmdTimeCancel(ticket_id, f) ==
    Commit("time cancel", TargetOf(ticket_id), <<>>,
           TimeAction_Cancel(Begin(f), ticket_id))

CmdTimeCancelAll(f) ==
    \E order \in Orders(time_tracking) :
        Commit("time cancel all", 0, order,
               cancel_all_active_timers(Begin(f), order))

CmdTimePause(ticket_id, f) ==
    Commit("time pause", TargetOf(ticket_id), <<>>,
           TimeAction_Pause(Begin(f), ticket_id, now))

CmdTimeResume(ticket_id, f) ==
    Commit("time resume", TargetOf(ticket_id), <<>>,
           TimeAction_Resume(Begin(f), ticket_id, now))

CmdActive(f) ==
    \E order \in Orders(time_tracking) :
        Commit("active", 0, order, handle_show_active_timers(Begin(f), order, now))

\* main: the process ends and the tool is invoked again, with a new
\* CommandHandler over the same database; `order` lists the sessions lost
NewProcess ==
    \E order \in Orders(time_tracking) :
        Commit("new process", 0, order, CommandHandler_new(Begin(0)))

CmdStart(ticket_id, f) ==
    Commit("start", TargetOf(ticket_id), <<>>,
           Commands_Start(Begin(f), ticket_id, now))

CmdInit(f) ==
    Commit("init", 0, <<>>, Commands_Init(Begin(f)))

TicketRoom == next_id <= MaxTicket
CommentRoom == next_comment_id <= MaxComments

CmdTicketCreate(project, name, description, f) ==
    /\ TicketRoom
    /\ Commit("ticket create", 0, <<>>,
              create_ticket_internal(Begin(f), project, name, description))

CmdAdd(project, name, description, f) ==
    /\ TicketRoom
    /\ Commit("add", 0, <<>>,
              create_ticket_internal(Begin(f), project, name, description))

CmdTicketList(project, f) ==
    Commit("ticket list", 0, <<>>, list_tickets_internal(Begin(f), project))

CmdList(project, f) ==
    Commit("list", 0, <<>>, list_tickets_internal(Begin(f), project))

CmdTicketShow(ticket_id, f) ==
    Commit("ticket show", TargetOf(ticket_id), <<>>,
           show_ticket_internal(Begin(f), ticket_id))

CmdShow(ticket_id, f) ==
    Commit("show", TargetOf(ticket_id), <<>>,
           show_ticket_internal(Begin(f), ticket_id))

CmdTicketUpdate(ticket_id, field, content, status, confirm, f) ==
    Commit("ticket update", TargetOf(ticket_id), <<>>,
           update_ticket_field_internal(Begin(f), ticket_id, field, content, status, confirm))

CmdUpdateName(ticket_id, content, f) ==
    Commit("update name", TargetOf(ticket_id), <<>>,
           update_ticket_field_internal(Begin(f), ticket_id, "name", content, <<>>, "no"))

CmdUpdateDescription(ticket_id, content, f) ==
    Commit("update description", TargetOf(ticket_id), <<>>,
           update_ticket_field_internal(Begin(f), ticket_id, "description", content,
                                        <<>>, "no"))

CmdUpdateStatus(ticket_id, status, force, confirm, f) ==
    Commit("update status", TargetOf(ticket_id), <<>>,
           UpdateTarget_Status(Begin(f), ticket_id, status, force, confirm))

CmdUpdateProject(ticket_id, project, f) ==
    Commit("update project", TargetOf(ticket_id), <<>>,
           move_ticket_internal(Begin(f), ticket_id, project))

CmdTicketDelete(ticket_id, force, confirm, f) ==
    Commit("ticket delete", TargetOf(ticket_id), <<>>,
           delete_ticket_internal(Begin(f), ticket_id, force, confirm))

CmdDelete(ticket_id, force, confirm, f) ==
    Commit("delete", TargetOf(ticket_id), <<>>,
           Commands_Delete(Begin(f), ticket_id, force, confirm))

CmdTicketMove(ticket_id, project, f) ==
    Commit("ticket move", TargetOf(ticket_id), <<>>,
           move_ticket_internal(Begin(f), ticket_id, project))

CmdTicketCopy(ticket_id, project, f) ==
    /\ TicketRoom
    /\ Commit("ticket copy", TargetOf(ticket_id), <<>>,
              copy_ticket_internal(Begin(f), ticket_id, project))

CmdProjectShow(project, json, f) ==
    Commit("project show", 0, <<>>, show_project_summary_internal(Begin(f), project, json))

CmdProj(project, json, f) ==
    Commit("proj", 0, <<>>, show_project_summary_internal(Begin(f), project, json))

CmdProjects(f) ==
    Commit("projects", 0, <<>>, handle_list_projects(Begin(f)))

CmdCommentAdd(ticket_id, content, f) ==
    /\ CommentRoom
    /\ Commit("comment add", TargetOf(ticket_id), <<>>,
              add_comment_internal(Begin(f), ticket_id, content))

CmdCommentList(ticket_id, f) ==
    Commit("comment list", TargetOf(ticket_id), <<>>,
           list_comments_internal(Begin(f), ticket_id))

CmdCommentShow(comment_id, f) ==
    Commit("comment show", 0, <<>>, CommentAction_Show(Begin(f), comment_id))

CmdCommentUpdate(comment_id, content, f) ==
    Commit("comment update", 0, <<>>, CommentAction_Update(Begin(f), comment_id, content))

CmdCommentDelete(comment_id, confirm, f) ==
    Commit("comment delete", 0, <<>>, CommentAction_Delete(Begin(f), comment_id, confirm))

CmdTimeLog(ticket_id, duration, f) ==
    /\ LogRoom(1)
    /\ Commit("time log", TargetOf(ticket_id), <<>>,
              log_time_duration_internal(Begin(f), ticket_id, duration))

CmdTimeList(ticket_id, f) ==
    Commit("time list", TargetOf(ticket_id), <<>>, TimeAction_List(Begin(f), ticket_id))

CmdTimeSummary(ticket_id, f) ==
    Commit("time summary", TargetOf(ticket_id), <<>>,
           TimeAction_Summary(Begin(f), ticket_id))

CmdTimeUpdate(log_id, duration, f) ==
    Commit("time update", 0, <<>>, TimeAction_Update(Begin(f), log_id, duration))

CmdTimeDelete(log_id, confirm, f) ==
    Commit("time delete", 0, <<>>, TimeAction_Delete(Begin(f), log_id, confirm))

CmdOpen(ticket_id, f) ==
    Commit("open", TargetOf(ticket_id), <<>>, Commands_Open(Begin(f), ticket_id))

CmdComplete(ticket_id, f) ==
    Commit("complete", TargetOf(ticket_id), <<>>, Commands_Complete(Begin(f), ticket_id))

CmdBlock(ticket_id, reason, f) ==
    /\ CommentRoom
    /\ Commit("block", TargetOf(ticket_id), <<>>,
              Commands_Block(Begin(f), ticket_id, reason))

CmdClose(ticket_id, status, force, confirm, f) ==
    Commit("close", TargetOf(ticket_id), <<>>,
           Commands_Close(Begin(f), ticket_id, status, force, confirm))

CmdStatus(ticket_id, status, force, confirm, f) ==
    Commit("status", TargetOf(ticket_id), <<>>,
           Commands_Status(Begin(f), ticket_id, status, force, confirm))

CmdLogStart(ticket_id, f) ==
    Commit("log --start", TargetOf(ticket_id), <<>>,
           Commands_Log(Begin(f), ticket_id, None, None, TRUE, FALSE, now))

CmdLogEnd(ticket_id, f) ==
    /\ LogRoom(1)
    /\ Commit("log --end", TargetOf(ticket_id), <<>>,
              Commands_Log(Begin(f), ticket_id, None, None, FALSE, TRUE, now))

CmdLogManual(cap, ticket_id, hours, minutes, f) ==
    /\ LogRoomOf(cap, 1)
    /\ Commit("log", TargetOf(ticket_id), <<>>,
              Commands_Log(Begin(f), ticket_id, hours, minutes, FALSE, FALSE, now))

----------------------------------------------------------------------------
(* Specifications *)

\* Timer: one ticket, a clock fine enough for minute arithmetic and long
\* enough for a session of more than a day.
TimerIds == {<<"1">>, <<"2">>}
TimerInstants == {0, 1800, 2400, 3600, 93645}

InitTimer == InitWith(1)

NextTimer ==
    \/ Tick(TimerInstants)
    \/ Return
    \/ NewProcess
    \/ \E s \in TimerIds, f \in Fails(3) :
        \/ CmdTimeStart(s, f)
        \/ CmdTimeStop(MaxLogs, s, f)
        \/ CmdTimeCancel(s, f)
        \/ CmdTimePause(s, f)
        \/ CmdTimeResume(s, f)
        \/ CmdStart(s, f)
        \/ CmdLogStart(s, f)
        \/ CmdLogEnd(s, f)
    \/ \E f \in FailPoints :
        \/ CmdTimeStopAll(MaxLogs, f)
        \/ CmdTimeCancelAll(f)
        \/ CmdActive(f)

SpecTimer == InitTimer /\ [][NextTimer]_vars

\* Bulk: several tickets tracked at once, for StopAll and CancelAll
BulkIds == {<<CHOOSE c \in DigitChars : DigitVal(c) = n>> : n \in 1..BulkTickets}
BulkInstants == {0, 1800}

InitBulk == InitWith(BulkTickets)

NextBulk ==
    \/ Tick(BulkInstants)
    \/ Return
    \/ \E s \in BulkIds, f \in Fails(1) :
        \/ CmdTimeStart(s, f)
        \/ CmdTimePause(s, f)
    \/ \E f \in FailPoints :
        \/ CmdTimeStopAll(BulkTickets, f)
        \/ CmdTimeCancelAll(f)

SpecBulk == InitBulk /\ [][NextBulk]_vars

\* Pure functions: parse_duration over the texts "<H>h<M>m", "<H>h" and "<M>m"
DigitChar(d) == CHOOSE c \in DigitChars : DigitVal(c) = d

RECURSIVE FormatDec(_)
FormatDec(n) ==
    IF n < 10 THEN <<DigitChar(n)>>
    ELSE Append(FormatDec(n \div 10), DigitChar(n % 10))

DurationForms == {"hm", "h", "m"}

DurationText(form, h, m) ==
    CASE form = "hm" -> FormatDec(h) \o <<"h">> \o FormatDec(m) \o <<"m">>
      [] form = "h" -> FormatDec(h) \o <<"h">>
      [] form = "m" -> FormatDec(m) \o <<"m">>

CallParseDuration ==
    \E form \in DurationForms, h \in 0..MaxHours, m \in 0..MaxMinutes :
        /\ arg = NoCall
        /\ form = "h" => m = 0
        /\ form = "m" => h = 0
        /\ arg' = [NoCall EXCEPT !.fn = "parse_duration",
                                 !.input = DurationText(form, h, m),
                                 !.form = form, !.h = h, !.m = m]
        /\ ret' = Returned(parse_duration(DurationText(form, h, m)))
        /\ UNCHANGED <<tickets, next_id, time_logs, next_log_id, comments,
                       next_comment_id, time_tracking, now, run_secs, last>>

\* Free-form duration texts
DurationTexts ==
    {<<"1", ".", "5", "h">>, <<"1", ".", "5">>, <<"0", ".", "2", "5">>,
     <<"2">>, <<"2", "5">>, <<"a", "b", "c">>, <<"n", "a", "n">>, <<>>,
     <<"3", "0", "m", "2", "h">>, <<"m", "1", "h">>, <<"h">>, <<"m">>,
     <<"h", "m">>, <<"m", "h">>}

CallParseDurationText ==
    \E text \in DurationTexts :
        /\ arg = NoCall
        /\ arg' = [NoCall EXCEPT !.fn = "parse_duration", !.input = text,
                                 !.form = "text"]
        /\ ret' = Returned(parse_duration(text))
        /\ UNCHANGED <<tickets, next_id, time_logs, next_log_id, comments,
                       next_comment_id, time_tracking, now, run_secs, last>>

\* Contents around the limits of each kind; a content of n characters has
\* n bytes when it is ASCII and more when some character is multi-byte
ContentKinds == {"TicketName", "Description", "Comment"}
ContentLengths == {0, 1, 2, 99, 100, 101, 999, 1000, 1001, 1999, 2000, 2001}
ExtraBytes == {0, 1, 3}

CallValidateContentLength ==
    \E kind \in ContentKinds, chars \in ContentLengths, extra \in ExtraBytes :
        /\ arg = NoCall
        /\ chars = 0 => extra = 0
        /\ arg' = [NoCall EXCEPT !.fn = "validate_content_length", !.kind = kind,
                                 !.chars = chars, !.bytes = chars + extra]
        /\ ret' = Returned(validate_content_length(Content(chars, chars + extra), kind))
        /\ UNCHANGED <<tickets, next_id, time_logs, next_log_id, comments,
                       next_comment_id, time_tracking, now, run_secs, last>>

StatusTexts ==
    {<<"O", "P", "E", "N">>, <<"o", "p", "e", "n">>, <<"O", "p", "e", "n">>,
     <<"I", "n", "-", "P", "r", "o", "g", "r", "e", "s", "s">>,
     <<"t", "e", "s", "t", "i", "n", "g">>, <<"B", "L", "O", "C", "K", "E", "D">>,
     <<"c", "l", "o", "s", "e", "d">>, <<"C", "a", "n", "c", "e", "l", "l", "e", "d">>,
     Str_completed, Str_done, <<"D", "O", "N", "E">>,
     <<"o", "p", "n", "e">>, <<"c", "l", "o", "s", "e">>,
     <<"i", "n", " ", "p", "r", "o", "g", "r", "e", "s", "s">>,
     <<"w", "h", "a", "t", "e", "v", "e", "r">>, <<"o", "p", "e", "n", " ">>, <<>>}

CallValidateStatus ==
    \E text \in StatusTexts :
        /\ arg = NoCall
        /\ arg' = [NoCall EXCEPT !.fn = "validate_status", !.input = text]
        /\ ret' = Returned(validate_status(text))
        /\ UNCHANGED <<tickets, next_id, time_logs, next_log_id, comments,
                       next_comment_id, time_tracking, now, run_secs, last>>

TicketIdTexts ==
    {<<"1">>, <<"4", "2">>, <<"0", "0", "7">>, <<"+", "5">>, <<"0">>, <<"0", "0">>,
     <<"-", "1">>, <<"-", "0">>, <<>>, <<"+">>, <<"a", "b", "c">>, <<"1", ".", "5">>,
     <<"1", "2", "a">>, <<" ", "1">>, <<"1", " ">>,
     I64MaxDigits \o <<"0">>, I64MinDigits, <<"0">> \o I64MinDigits}

CallValidateTicketId ==
    \E text \in TicketIdTexts :
        /\ arg = NoCall
        /\ arg' = [NoCall EXCEPT !.fn = "validate_ticket_id", !.input = text]
        /\ ret' = Returned(validate_ticket_id(text))
        /\ UNCHANGED <<tickets, next_id, time_logs, next_log_id, comments,
                       next_comment_id, time_tracking, now, run_secs, last>>

InitPure == InitWith(0)

NextPure ==
    \/ CallParseDuration
    \/ CallParseDurationText
    \/ CallValidateContentLength
    \/ CallValidateStatus
    \/ CallValidateTicketId

SpecPure == InitPure /\ [][NextPure]_vars

\* Summary: two tickets, up to SummaryLogs time logs, and a final call of
\* get_project_summary on the database the commands have built
SummaryIds == {<<"1">>, <<"2">>}
SummaryProjects == {<<"p">>, <<"q">>}
SummaryTimes == {<<Some(1), Some(30)>>, <<Some(0), Some(45)>>}

CallGetProjectSummary ==
    \E project \in SummaryProjects :
        /\ arg = NoCall
        /\ last.cmd = "none"
        /\ arg' = [NoCall EXCEPT !.fn = "get_project_summary", !.input = project]
        /\ ret' = Returned(Ok(get_project_summary_row(tickets, time_logs, project)))
        /\ UNCHANGED <<tickets, next_id, time_logs, next_log_id, comments,
                       next_comment_id, time_tracking, now, run_secs, last>>

InitSummary == InitWith(SummaryTickets)

NextSummary ==
    \/ CallGetProjectSummary
    \/ /\ arg = NoCall
       /\ \/ Return
          \/ \E s \in SummaryIds, f \in Fails(1) :
                \/ \E m \in SummaryTimes : CmdLogManual(SummaryLogs, s, m[1], m[2], f)
                \/ \E project \in SummaryProjects : CmdTicketMove(s, project, f)
                \/ CmdClose(s, None, TRUE, "yes", f)
                \/ CmdOpen(s, f)
                \/ CmdBlock(s, None, f)

SpecSummary == InitSummary /\ [][NextSummary]_vars

\* Comments: one ticket, and contents at the limits of a comment
CommentIds == {<<"1">>, <<"2">>}
CommentContents ==
    {Content(0, 0), Content(1, 1), Content(991, 991), Content(992, 992),
     Content(1000, 1000), Content(1000, 1001), Content(1001, 1001)}

InitComment == InitWith(1)

NextComment ==
    \/ Return
    \/ \E s \in CommentIds, f \in FailPoints :
        \/ CmdOpen(s, f)
        \/ CmdBlock(s, None, f)
        \/ CmdCommentDelete(s, "yes", f)
        \/ \E content \in CommentContents :
            \/ CmdCommentAdd(s, content, f)
            \/ CmdCommentUpdate(s, content, f)
            \/ CmdBlock(s, Some(content), f)

SpecComment == InitComment /\ [][NextComment]_vars

\* Frame: two tickets, each with its own timer
FrameIds == {<<"1">>, <<"2">>}
FrameInstants == {0, 1800}

InitFrame == InitWith(FrameTickets)

NextFrame ==
    \/ Tick(FrameInstants)
    \/ Return
    \/ \E s \in FrameIds, f \in Fails(2) :
        \/ CmdTimeStart(s, f)
        \/ CmdTimePause(s, f)
        \/ CmdTimeResume(s, f)
        \/ CmdTimeStop(FrameLogs, s, f)
        \/ CmdTimeCancel(s, f)
        \/ CmdStart(s, f)

SpecFrame == InitFrame /\ [][NextFrame]_vars

\* Router: every command spelling, at one instant of the clock
Ids == {<<"1">>, <<"a", "b", "c">>}
Contents == {Content(4, 4), Content(1001, 1001)}
Statuses == {<<"O", "P", "E", "N">>, Str_done}
Projects == {<<"p">>, <<"b", "a", "d", " ", "n", "a", "m", "e", "!">>}
Durations == {<<"2", "h", "3", "0", "m">>, <<"9", "0", "m">>, <<"a", "b", "c">>}
ManualTimes == {<<Some(1), Some(30)>>, <<Some(25), Some(70)>>, <<Some(1), None>>}
Confirm == {<<TRUE, "yes">>, <<FALSE, "yes">>, <<FALSE, "no">>, <<FALSE, "err">>}

Init == InitWith(0)

Next ==
    \/ Return
    \/ \E f \in Fails(1) :
        \/ CmdInit(f)
        \/ CmdProjects(f)
    \/ \E f \in FailPoints :
        \/ CmdActive(f)
        \/ CmdTimeStopAll(MaxLogs, f)
        \/ CmdTimeCancelAll(f)
    \/ \E project \in Projects, name \in Contents, description \in Contents, f \in Fails(2) :
        \/ CmdTicketCreate(project, name, description, f)
        \/ CmdAdd(project, name, description, f)
    \/ \E project \in Projects, f \in Fails(2) :
        \/ CmdTicketList(Some(project), f)
        \/ CmdList(None, f)
        \/ \E json \in BOOLEAN :
            \/ CmdProjectShow(project, json, f)
            \/ CmdProj(project, json, f)
    \/ \E s \in Ids, f \in Fails(1) :
        \/ CmdCommentShow(s, f)
        \/ CmdTimeCancel(s, f)
        \/ CmdTimePause(s, f)
        \/ CmdTimeResume(s, f)
        \/ \E content \in Contents :
            CmdCommentUpdate(s, content, f)
        \/ \E duration \in Durations :
            CmdTimeUpdate(s, duration, f)
        \/ \E confirm \in ConfirmAnswers :
            \/ CmdCommentDelete(s, confirm, f)
            \/ CmdTimeDelete(s, confirm, f)
    \/ \E s \in Ids, f \in Fails(2) :
        \/ CmdCommentList(s, f)
        \/ CmdTimeStart(s, f)
        \/ CmdTimeStop(MaxLogs, s, f)
        \/ CmdTimeList(s, f)
        \/ CmdTimeSummary(s, f)
        \/ CmdLogStart(s, f)
        \/ \E content \in Contents :
            \/ CmdUpdateName(s, content, f)
            \/ CmdUpdateDescription(s, content, f)
        \/ \E project \in Projects :
            \/ CmdUpdateProject(s, project, f)
            \/ CmdTicketMove(s, project, f)
            \/ CmdTicketCopy(s, Some(project), f)
            \/ CmdTicketCopy(s, None, f)
    \/ \E s \in Ids, f \in Fails(3) :
        \/ CmdTicketShow(s, f)
        \/ CmdShow(s, f)
        \/ CmdOpen(s, f)
        \/ CmdComplete(s, f)
        \/ CmdStart(s, f)
        \/ CmdLogEnd(s, f)
        \/ \E content \in Contents :
            \/ CmdCommentAdd(s, content, f)
            \/ CmdTicketUpdate(s, "name", content, <<>>, "no", f)
            \/ CmdTicketUpdate(s, "description", content, <<>>, "no", f)
        \/ CmdTicketUpdate(s, "priority", Content(4, 4), <<>>, "no", f)
        \/ \E status \in Statuses, confirm \in ConfirmAnswers :
            CmdTicketUpdate(s, "status", Content(4, 4), status, confirm, f)
        \/ \E status \in Statuses, c \in Confirm :
            \/ CmdUpdateStatus(s, status, c[1], c[2], f)
            \/ CmdStatus(s, status, c[1], c[2], f)
            \/ CmdClose(s, Some(status), c[1], c[2], f)
        \/ \E c \in Confirm :
            \/ CmdClose(s, None, c[1], c[2], f)
            \/ CmdTicketDelete(s, c[1], c[2], f)
            \/ CmdDelete(s, c[1], c[2], f)
        \/ \E duration \in Durations :
            CmdTimeLog(s, duration, f)
        \/ \E m \in ManualTimes :
            CmdLogManual(MaxLogs, s, m[1], m[2], f)
    \/ \E s \in Ids, f \in FailPoints :
        \/ CmdBlock(s, None, f)
        \/ \E content \in Contents :
            CmdBlock(s, Some(content), f)

Spec == Init /\ [][Next]_vars

----------------------------------------------------------------------------
(* Claims *)

StopCmds == {"time stop", "time stop all", "log --end"}

NewLogs == (DOMAIN time_logs') \ (DOMAIN time_logs)

\* C1: the duration of the TimeLog a Stop emits is the time the timer spent
\* running (whole minutes of run_secs); time spent paused is not counted, and a
\* Stop of a paused timer does not depend on when it is issued.
C1_StopEmitsRunningTime ==
    [][last'.cmd \in StopCmds =>
        \A l \in NewLogs :
            LET row == time_logs'[l]
            IN /\ row.ticket_id \in DOMAIN run_secs
               /\ row.hours * 60 + row.minutes = run_secs[row.ticket_id] \div 60]_vars

\* Start at 0, Pause at 30 min, Resume at 40 min, Stop at 60 min: 0 h 50 min
C1_Witness ==
    /\ last.cmd = "time stop"
    /\ now = 3600
    /\ \E l \in DOMAIN time_logs :
          time_logs[l] = [ticket_id |-> 1, hours |-> 0, minutes |-> 50,
                          started_at |-> Some(2400), ended_at |-> Some(3600)]

\* C2: every persisted TimeLog row has 0 <= hours <= 24 and 0 <= minutes <= 59
C2_TimeLogsInRange ==
    \A l \in DOMAIN time_logs :
        /\ 0 <= time_logs[l].hours /\ time_logs[l].hours <= 24
        /\ 0 <= time_logs[l].minutes /\ time_logs[l].minutes <= 59

\* C3: a Stop whose computed total is outside validate_time's range ends with
\* InvalidTime and writes no TimeLog
C3_LongSessionRejected ==
    [][(/\ last'.cmd = "time stop"
        /\ last'.target \in DOMAIN time_tracking
        /\ LET total == total_duration(time_tracking[last'.target], now)
           IN ~validate_time(duration_hours(total), duration_minutes(total)).ok)
       => (last'.inner = "InvalidTime" /\ time_logs' = time_logs)]_vars

Attempted(op, id) ==
    \E k \in 1..Len(last.calls) : last.calls[k].op = op /\ last.calls[k].id = id

\* C4: StopAll and CancelAll attempt the operation on every id of the
\* snapshot, whatever happened to the ids before it
C4_BulkContinuesOnError ==
    /\ last.cmd = "time stop all" =>
          \A i \in 1..Len(last.order) : Attempted("add_time_log", last.order[i])
    /\ last.cmd = "time cancel all" =>
          \A i \in 1..Len(last.order) : last.order[i] \notin DOMAIN time_tracking

TicketMutatingOps ==
    {"update_ticket_status", "add_time_log", "add_comment", "delete_ticket",
     "update_ticket_name", "update_ticket_description", "move_ticket_project",
     "copy_ticket"}

\* C5: a mutating repository call for a ticket id is issued only after a
\* get_ticket for that id, earlier in the same command, found the ticket
C5_ExistenceCheckBeforeMutation ==
    \A k \in 1..Len(last.calls) :
        last.calls[k].op \in TicketMutatingOps =>
            \E j \in 1..(k - 1) :
                /\ last.calls[j].op = "get_ticket"
                /\ last.calls[j].id = last.calls[k].id
                /\ last.calls[j].found

\* C6: in the `start` shortcut a failed status update does not prevent the
\* timer entry from being created
C6_StartAttemptsBothHalves ==
    (/\ last.cmd = "start"
     /\ \E k \in 1..Len(last.calls) :
           last.calls[k].op = "update_ticket_status" /\ ~last.calls[k].ok)
    => /\ last.target \in DOMAIN time_tracking
       /\ time_tracking[last.target] = TimeTrackingState_new(now)

\* C7: a command during which a repository call failed ends as a fatal error
C7_RepositoryFailureIsFatal ==
    (\E k \in 1..Len(last.calls) : ~last.calls[k].ok) => last.result = "Err"

\* C8: a command that fails with a ValidationError ends with handle_command
\* returning Ok
C8_ValidationErrorsAreNonFatal ==
    last.inner \in ValidationErrors => last.result = "Ok"

C8_Witness ==
    /\ last.cmd = "comment add"
    /\ last.inner = "TicketNotFound"
    /\ last.result = "Ok"

\* C9: a command that ends with a validation failure of one of its arguments
\* has issued no mutating repository call
C9_NoWriteOnInvalidArgument ==
    last.inner \in ValidationErrors \ {"TicketNotFound"} =>
        \A k \in 1..Len(last.calls) : last.calls[k].op \notin MutatingOps

\* C10: Pause on a timer that is already paused changes nothing (tracking map,
\* running time, repository) and returns Ok
C10_PauseWhenPausedIsNoOp ==
    [][(/\ last'.cmd = "time pause"
        /\ last'.target \in DOMAIN time_tracking
        /\ is_paused(time_tracking[last'.target]))
       => /\ time_tracking' = time_tracking
          /\ run_secs' = run_secs
          /\ time_logs' = time_logs
          /\ tickets' = tickets
          /\ last'.result = "Ok"]_vars

\* A second Pause, issued later than the one that paused the timer
C10_Witness ==
    /\ last.cmd = "time pause"
    /\ last.calls = <<>>
    /\ last.target \in DOMAIN time_tracking
    /\ is_paused(time_tracking[last.target])
    /\ Unwrap(time_tracking[last.target].paused_at) < now

AbsentCmds == {"time pause", "time resume", "time stop", "time cancel"}

\* C11: Pause, Resume, Stop and Cancel on a ticket id without a tracking
\* entry change nothing (tracking map, time logs, tickets, comments) and the
\* command returns Ok
C11_AbsentEntryIsNoOp ==
    [][(last'.cmd \in AbsentCmds /\ last'.target \notin DOMAIN time_tracking)
       => /\ time_tracking' = time_tracking
          /\ time_logs' = time_logs
          /\ tickets' = tickets
          /\ comments' = comments
          /\ last'.result = "Ok"]_vars

\* A Stop of ticket 1, which exists and is not tracked, after time has passed
C11_Witness ==
    /\ last.cmd = "time stop"
    /\ last.target = 1
    /\ ~last.tracked
    /\ last.result = "Ok"
    /\ time_logs = EmptyMap
    /\ now > 0

\* C12: Cancel on a tracked ticket (running or paused) removes its entry and
\* persists no TimeLog; CancelAll persists none either
C12_CancelDiscards ==
    [][/\ (last'.cmd = "time cancel" /\ last'.target \in DOMAIN time_tracking)
          => /\ last'.target \notin DOMAIN time_tracking'
             /\ time_logs' = time_logs
             /\ next_log_id' = next_log_id
             /\ \A k \in 1..Len(last'.calls) : last'.calls[k].op # "add_time_log"
       /\ last'.cmd = "time cancel all" => time_logs' = time_logs]_vars

\* A Cancel that found an entry, issued after the timer had run for a while
C12_Witness ==
    /\ last.cmd = "time cancel"
    /\ last.tracked
    /\ last.target \notin DOMAIN time_tracking
    /\ time_logs = EmptyMap
    /\ now > 0

StartCmds == {"time start", "start", "log --start"}

\* C13: a successful Start (time start, start, log --start) on a ticket that
\* already has an entry replaces it with a fresh running entry, leaves the
\* other entries alone and persists no TimeLog
C13_StartOverwrites ==
    [][(/\ last'.cmd \in StartCmds
        /\ last'.inner = "Ok"
        /\ last'.target \in DOMAIN time_tracking)
       => /\ DOMAIN time_tracking' = DOMAIN time_tracking
          /\ time_tracking'[last'.target] = TimeTrackingState_new(now)
          /\ \A id \in DOMAIN time_tracking \ {last'.target} :
                time_tracking'[id] = time_tracking[id]
          /\ run_secs'[last'.target] = 0
          /\ time_logs' = time_logs]_vars

\* A Start at a later instant on a ticket that had an entry
C13_Witness ==
    /\ last.cmd \in StartCmds
    /\ last.tracked
    /\ last.inner = "Ok"
    /\ now > 0
    /\ time_tracking[last.target] = TimeTrackingState_new(now)

\* C14: Pause leaves elapsed_time as it is, and Resume never lowers it
C14_ElapsedMonotonic ==
    [][(/\ last'.cmd \in {"time pause", "time resume"}
        /\ last'.target \in DOMAIN time_tracking
        /\ last'.target \in DOMAIN time_tracking')
       => LET old == time_tracking[last'.target].elapsed_time
              new == time_tracking'[last'.target].elapsed_time
          IN /\ UnwrapOr(new, 0) >= UnwrapOr(old, 0)
             /\ IsSome(old) => IsSome(new)
             /\ last'.cmd = "time pause" => new = old]_vars

\* The second Resume of a timer: 30 min and 20 min of running accumulated
C14_Witness ==
    /\ last.cmd = "time resume"
    /\ last.tracked
    /\ time_tracking[last.target].elapsed_time = Some(3000)

Writes(r) == SelectSeq(r.calls, LAMBDA c : c.op \in MutatingOps)

SameEffect(a, b) ==
    /\ a.tickets = b.tickets
    /\ a.time_logs = b.time_logs
    /\ a.comments = b.comments
    /\ a.time_tracking = b.time_tracking
    /\ Writes(a) = Writes(b)
    /\ handle_command(a.err) = handle_command(b.err)

\* `log <id> <hours> <minutes>` and the `time log <id> <duration>` for the same duration
LegacyDurations ==
    {[hours |-> 1, minutes |-> 30, text |-> <<"1", "h", "3", "0", "m">>],
     [hours |-> 25, minutes |-> 70, text |-> <<"2", "5", "h", "7", "0", "m">>]}

\* C15: from every state, with a repository that does not fail, a legacy
\* command and its modern equivalent leave the same tables and tracking map,
\* issue the same repository writes and end with the same outcome
C15_LegacyMatchesModern ==
    \A id \in Ids :
        /\ SameEffect(Commands_Log(Begin(0), id, None, None, TRUE, FALSE, now),
                      TimeAction_Start(Begin(0), id, now))
        /\ SameEffect(Commands_Log(Begin(0), id, None, None, FALSE, TRUE, now),
                      TimeAction_Stop(Begin(0), id, now))
        /\ \A d \in LegacyDurations :
              SameEffect(Commands_Log(Begin(0), id, Some(d.hours), Some(d.minutes),
                                      FALSE, FALSE, now),
                         log_time_duration_internal(Begin(0), id, d.text))
        /\ \A st \in Statuses, c \in Confirm :
              SameEffect(Commands_Status(Begin(0), id, st, c[1], c[2]),
                         UpdateTarget_Status(Begin(0), id, st, c[1], c[2]))
        /\ \A c \in Confirm :
              SameEffect(Commands_Delete(Begin(0), id, c[1], c[2]),
                         delete_ticket_internal(Begin(0), id, c[1], c[2]))

\* C16: no step changes a field of a TimeLog row that stays in the table
C16_TimeLogsImmutable ==
    [][\A l \in (DOMAIN time_logs) \cap (DOMAIN time_logs') :
          time_logs'[l] = time_logs[l]]_vars

\* C17: a new process tracks nothing, whatever the previous one tracked: a
\* Stop issued there makes no repository call, persists no TimeLog and
\* returns Ok
C17_TrackingIsPerProcess ==
    last.cmd = "new process" =>
        /\ time_tracking = EmptyMap
        /\ \A id \in TimerIds :
              LET r == TimeAction_Stop(Begin(0), id, now)
              IN r.err = "Ok" /\ r.calls = <<>> /\ r.time_logs = time_logs

\* A process that ended while a timer was tracked
C17_Witness ==
    /\ last.cmd = "new process"
    /\ last.order # <<>>
    /\ time_tracking = EmptyMap
    /\ time_logs = EmptyMap

Declined(r) ==
    /\ \A k \in 1..Len(r.calls) : r.calls[k].op # "update_ticket_status"
    /\ r.tickets = tickets
    /\ handle_command(r.err) = "Ok"

\* C18: when the command is not forced and the user declines the
\* confirmation, no status-changing command, the shortcuts open, complete,
\* block and start included, calls update_ticket_status; the tickets are
\* unchanged and the command ends successfully
C18_StatusUpdateNeedsConsent ==
    \A id \in Ids :
        /\ \A st \in Statuses :
              /\ Declined(Commands_Close(Begin(0), id, Some(st), FALSE, "no"))
              /\ Declined(Commands_Status(Begin(0), id, st, FALSE, "no"))
              /\ Declined(UpdateTarget_Status(Begin(0), id, st, FALSE, "no"))
        /\ Declined(Commands_Open(Begin(0), id))
        /\ Declined(Commands_Complete(Begin(0), id))
        /\ Declined(Commands_Block(Begin(0), id, None))
        /\ Declined(Commands_Start(Begin(0), id, now))

\* C19: parse_duration of "<H>h<M>m", "<H>h" or "<M>m" returns (H, M), the
\* missing component being 0
C19_ParseDurationForms ==
    (arg.fn = "parse_duration" /\ arg.form \in DurationForms)
    => ret = Returned(Ok(<<arg.h, arg.m>>))

\* C20: parse_duration("90m") returns (0, 90)
C20_NinetyMinutesUnnormalized ==
    (arg.fn = "parse_duration" /\ arg.input = <<"9", "0", "m">>)
    => ret = Returned(Ok(<<0, 90>>))

\* C21: parse_duration("1.5h") returns (1, 30)
C21_DecimalHoursWithSuffix ==
    (arg.fn = "parse_duration" /\ arg.input = <<"1", ".", "5", "h">>)
    => ret = Returned(Ok(<<1, 30>>))

\* A text that is a decimal number: digits, then optionally a point and digits
IntPart(text) == IF Contains(text, ".") THEN Slice(text, 0, Find(text, ".")) ELSE text
FracPart(text) ==
    IF Contains(text, ".") THEN Slice(text, Find(text, ".") + 1, Len(text)) ELSE <<>>

IsDecimalNumber(text) ==
    /\ AllDigits(IntPart(text))
    /\ AllDigits(FracPart(text))
    /\ Len(IntPart(text)) + Len(FracPart(text)) > 0

\* C22: for a text with neither 'h' nor 'm', parse_duration returns (integer
\* part, fractional part x 60 truncated) when the text is a decimal number of
\* hours, and fails with the invalid-duration-format error when the text is
\* not a number; a number of more than 24 hours fails in some way
C22_DecimalHours ==
    (/\ arg.fn = "parse_duration"
     /\ ~Contains(arg.input, "h")
     /\ ~Contains(arg.input, "m"))
    => IF ~IsDecimalNumber(arg.input) THEN ret = Returned(Err("Other"))
       ELSE IF DecValue(IntPart(arg.input)) > 24 THEN ~ret.ok
       ELSE ret = Returned(Ok(<<DecValue(IntPart(arg.input)),
                                (DecValue(FracPart(arg.input)) * 60)
                                    \div Pow10(Len(FracPart(arg.input)))>>))

LengthInRange(kind, n) ==
    CASE kind = "TicketName" -> 1 <= n /\ n <= 100
      [] kind = "Description" -> 1 <= n /\ n <= 2000
      [] kind = "Comment" -> 1 <= n /\ n <= 1000

\* C23: validate_content_length fails iff the number of characters of the
\* content is outside the range of the kind, whatever its number of bytes
C23_CountsCharacters ==
    arg.fn = "validate_content_length"
    => (ret.ok <=> LengthInRange(arg.kind, arg.chars))

\* C24: for ASCII content validate_content_length returns the content when
\* its length is in the range of the kind (TicketName 1..100, Description
\* 1..2000, Comment 1..1000) and fails with InvalidContentLength otherwise
C24_AsciiLengthRanges ==
    (arg.fn = "validate_content_length" /\ arg.bytes = arg.chars)
    => ret = IF LengthInRange(arg.kind, arg.chars)
             THEN Returned(Ok(Content(arg.chars, arg.bytes)))
             ELSE Returned(Err("InvalidContentLength"))

\* An ASCII comment of exactly 1000 characters is accepted
C24_Witness ==
    /\ arg.fn = "validate_content_length"
    /\ arg.kind = "Comment"
    /\ arg.chars = 1000
    /\ arg.bytes = 1000
    /\ ret.ok

CanonicalStatuses ==
    {<<"o", "p", "e", "n">>, <<"i", "n", "-", "p", "r", "o", "g", "r", "e", "s", "s">>,
     <<"t", "e", "s", "t", "i", "n", "g">>, <<"b", "l", "o", "c", "k", "e", "d">>,
     <<"c", "l", "o", "s", "e", "d">>, <<"c", "a", "n", "c", "e", "l", "l", "e", "d">>}

\* s and t are the same text up to the case of ASCII letters
SameUpToCase(s, t) ==
    /\ Len(s) = Len(t)
    /\ \A i \in 1..Len(s) :
          \/ s[i] = t[i]
          \/ \E k \in 1..26 : {s[i], t[i]} = {UpperChars[k], LowerChars[k]}

\* C25: validate_status returns the canonical status that the text equals up
\* to case, and fails with InvalidStatus when there is none (completed, done
\* and near-misses included)
C25_StatusCanonical ==
    arg.fn = "validate_status"
    => IF \E c \in CanonicalStatuses : SameUpToCase(arg.input, c)
       THEN \E c \in CanonicalStatuses :
               SameUpToCase(arg.input, c) /\ ret = Returned(Ok(c))
       ELSE ret = Returned(Err("InvalidStatus"))

\* validate_status("OPEN") = "open"
C25_Witness ==
    /\ arg.fn = "validate_status"
    /\ arg.input = <<"O", "P", "E", "N">>
    /\ ret = Returned(Ok(<<"o", "p", "e", "n">>))

\* A text that represents a strictly positive integer: digits, not all of
\* them 0, after an optional plus sign
Digits(text) == IF text # <<>> /\ Head(text) = "+" THEN Tail(text) ELSE text

RepresentsPositive(text) ==
    /\ Digits(text) # <<>>
    /\ AllDigits(Digits(text))
    /\ StripZeros(Digits(text)) # <<>>

\* C26: validate_ticket_id succeeds on every text that represents a strictly
\* positive integer, returning the integer, and fails with InvalidTicketId on
\* every other text
C26_TicketIdAllPositive ==
    arg.fn = "validate_ticket_id"
    => IF RepresentsPositive(arg.input)
       THEN /\ ret.ok
            /\ Len(StripZeros(Digits(arg.input))) < 10
                  => ret.v = Some(DecValue(Digits(arg.input)))
       ELSE ret = Returned(Err("InvalidTicketId"))

\* C26, amended: validate_ticket_id returns n for every text that represents
\* a strictly positive integer n <= i64::MAX, and fails with InvalidTicketId
\* for every other text, the integers above i64::MAX included
C26_TicketIdWithinI64 ==
    arg.fn = "validate_ticket_id"
    => IF /\ RepresentsPositive(arg.input)
          /\ ~Exceeds(StripZeros(Digits(arg.input)), I64MaxDigits)
       THEN ret = Returned(Ok(DecValue(Digits(arg.input))))
       ELSE ret = Returned(Err("InvalidTicketId"))

\* i64::MAX + 1 is rejected
C26_Witness ==
    /\ arg.fn = "validate_ticket_id"
    /\ arg.input = I64MinDigits
    /\ ret = Returned(Err("InvalidTicketId"))

\* C28: a Stop never takes a ticket from tracked to absent without a TimeLog
\* of the ticket being persisted by the same command
C28_StopRemovesAfterEmit ==
    [][last'.cmd \in StopCmds =>
        \A id \in (DOMAIN time_tracking) \ (DOMAIN time_tracking') :
            \E l \in NewLogs : time_logs'[l].ticket_id = id]_vars

\* C29: the TimeLog a Stop emits ends at paused_at when the timer is paused
\* at the Stop, and at the instant of the Stop when it is running
C29_PausedStopEndsAtPause ==
    [][last'.cmd \in StopCmds =>
        \A l \in NewLogs :
            LET id == time_logs'[l].ticket_id
            IN /\ id \in DOMAIN time_tracking
               /\ time_logs'[l].ended_at =
                      IF is_paused(time_tracking[id])
                      THEN time_tracking[id].paused_at
                      ELSE Some(now)]_vars

\* C30: Resume of a paused timer adds the segment start_time..paused_at to
\* elapsed_time (0 when there was none), restarts the timer at the current
\* instant and clears paused_at; Resume of a running timer changes nothing
\* and returns Ok
C30_ResumeAccumulates ==
    [][(last'.cmd = "time resume" /\ last'.target \in DOMAIN time_tracking)
       => LET old == time_tracking[last'.target]
          IN IF is_paused(old)
             THEN /\ last'.target \in DOMAIN time_tracking'
                  /\ time_tracking'[last'.target] =
                         [start_time |-> now,
                          paused_at |-> None,
                          elapsed_time |->
                              Some(UnwrapOr(old.elapsed_time, 0)
                                   + (Unwrap(old.paused_at) - old.start_time))]
             ELSE /\ time_tracking' = time_tracking
                  /\ time_logs' = time_logs
                  /\ tickets' = tickets
                  /\ last'.calls = <<>>
                  /\ last'.result = "Ok"]_vars

\* Start at 0, Pause at 30 min, Resume at 40 min
C30_Witness ==
    /\ last.cmd = "time resume"
    /\ last.tracked
    /\ now = 2400
    /\ time_tracking[last.target] =
           [start_time |-> 2400, paused_at |-> None, elapsed_time |-> Some(1800)]

\* The tickets of a project, and the minutes of their time logs
TicketsOf(project) == {t \in DOMAIN tickets : tickets[t].project = project}

RECURSIVE LoggedMinutes(_)
LoggedMinutes(ls) ==
    IF ls = {} THEN 0
    ELSE LET l == CHOOSE x \in ls : TRUE
         IN 60 * time_logs[l].hours + time_logs[l].minutes + LoggedMinutes(ls \ {l})

\* C27: get_project_summary counts the tickets of the project (all, open and
\* closed) whatever the number of time logs of each ticket, and totals the
\* time logged on them; a project without tickets has zeros
C27_SummaryCountsTickets ==
    arg.fn = "get_project_summary"
    => ret = Returned(Ok(
           [project |-> arg.input,
            total_tickets |-> Cardinality(TicketsOf(arg.input)),
            open_tickets |->
                Cardinality({t \in TicketsOf(arg.input) : tickets[t].status = Str_open}),
            closed_tickets |->
                Cardinality({t \in TicketsOf(arg.input) : tickets[t].status = Str_closed}),
            total_time_hours |->
                LoggedMinutes({l \in DOMAIN time_logs :
                                  time_logs[l].ticket_id \in TicketsOf(arg.input)})]))

\* The seconds a timer has accumulated at the instant t
TotalSeconds(state, t) ==
    UnwrapOr(state.elapsed_time, 0) + (UnwrapOr(state.paused_at, t) - state.start_time)

\* C31: the hours and minutes of the TimeLog a Stop emits are those of the one
\* total duration: hours = floor(total minutes / 60), minutes = floor(total
\* minutes) mod 60, so hours * 60 + minutes = floor(total minutes) and
\* 0 <= minutes <= 59
C31_HoursMinutesFromOneTotal ==
    [][last'.cmd \in StopCmds =>
        \A l \in NewLogs :
            LET row == time_logs'[l]
                total_minutes == TotalSeconds(time_tracking[row.ticket_id], now) \div 60
            IN /\ row.ticket_id \in DOMAIN time_tracking
               /\ row.hours = total_minutes \div 60
               /\ row.minutes = total_minutes % 60
               /\ row.hours * 60 + row.minutes = total_minutes
               /\ 0 <= row.minutes /\ row.minutes <= 59]_vars

\* Start at 30 min, Stop at 26 h 0 min 45 s: 25 h 30 min
C31_Witness ==
    /\ last.cmd \in StopCmds
    /\ \E l \in DOMAIN time_logs :
          /\ time_logs[l].hours = 25
          /\ time_logs[l].minutes = 30
          /\ time_logs[l].started_at = Some(1800)

\* C32: the TimeLog a Stop emits starts at the start of the last running
\* segment: start_time is the instant of the command that created the entry
\* or of the last Resume of the paused timer, no other command changes it, and
\* the Stop copies it to started_at
C32_StartedAtIsSegmentStart ==
    [][/\ last'.cmd \in StopCmds =>
            \A l \in NewLogs :
                /\ time_logs'[l].ticket_id \in DOMAIN time_tracking
                /\ time_logs'[l].started_at =
                       Some(time_tracking[time_logs'[l].ticket_id].start_time)
       /\ \A id \in DOMAIN time_tracking' :
            IF id \notin DOMAIN time_tracking
            THEN time_tracking'[id].start_time = now
            ELSE IF /\ last'.cmd = "time resume"
                    /\ last'.target = id
                    /\ is_paused(time_tracking[id])
            THEN time_tracking'[id].start_time = now
            ELSE IF last'.cmd \in StartCmds /\ last'.target = id
            THEN \/ time_tracking'[id] = TimeTrackingState_new(now)
                 \/ time_tracking'[id] = time_tracking[id]
            ELSE time_tracking'[id].start_time = time_tracking[id].start_time]_vars

\* Start at 0, Pause at 30 min, Resume and Stop at 60 min: the log of 30
\* minutes starts at 60 min
C32_Witness ==
    /\ last.cmd = "time stop"
    /\ \E l \in DOMAIN time_logs :
          time_logs[l] = [ticket_id |-> 1, hours |-> 0, minutes |-> 30,
                          started_at |-> Some(3600), ended_at |-> Some(3600)]

\* C33: showing the active timers leaves the tracking map as it is, and the
\* line of each entry carries the hours and minutes of elapsed_time (or 0) +
\* (paused_at (or now) - start_time), which are those of the TimeLog a Stop
\* at the same instant would emit
C33_ActiveShowsStopDuration ==
    [][last'.cmd = "active" =>
        /\ time_tracking' = time_tracking
        /\ time_logs' = time_logs
        /\ last'.result = "Ok" => Len(last'.shown) = Cardinality(DOMAIN time_tracking)
        /\ \A i \in 1..Len(last'.shown) :
              LET line == last'.shown[i]
                  id == line.ticket_id
                  stopped == stop_time_tracking_internal(Begin(0), id, now)
              IN /\ id = last'.order[i]
                 /\ id \in DOMAIN time_tracking
                 /\ line.hours = TotalSeconds(time_tracking[id], now) \div 3600
                 /\ line.minutes = (TotalSeconds(time_tracking[id], now) \div 60) % 60
                 /\ id \in DOMAIN tickets =>
                       /\ next_log_id \in DOMAIN stopped.time_logs
                       /\ stopped.time_logs[next_log_id].hours = line.hours
                       /\ stopped.time_logs[next_log_id].minutes = line.minutes]_vars

\* Start at 0, Pause at 30 min, `active` at 60 min: 0 h 30 min, paused
C33_Witness ==
    /\ last.cmd = "active"
    /\ now = 3600
    /\ last.shown = <<[ticket_id |-> 1, hours |-> 0, minutes |-> 30, paused |-> TRUE]>>

ManualLogCmds == {"log", "time log"}

\* C34: every TimeLog has started_at and ended_at both present or both
\* absent; a log written by a Stop has both, a manually entered log has none
C34_TimestampsPaired ==
    [][/\ \A l \in DOMAIN time_logs' :
            IsSome(time_logs'[l].started_at) <=> IsSome(time_logs'[l].ended_at)
       /\ \A l \in NewLogs :
            /\ last'.cmd \in StopCmds =>
                  /\ IsSome(time_logs'[l].started_at)
                  /\ IsSome(time_logs'[l].ended_at)
            /\ last'.cmd \in ManualLogCmds =>
                  /\ time_logs'[l].started_at = None
                  /\ time_logs'[l].ended_at = None]_vars

\* A Stop has written a log with both timestamps
C34_Witness ==
    /\ last.cmd \in StopCmds
    /\ last.result = "Ok"
    /\ \E l \in DOMAIN time_logs :
          IsSome(time_logs[l].started_at) /\ IsSome(time_logs[l].ended_at)

AllowedStatuses == CanonicalStatuses \cup {Str_completed, Str_done}

ShortcutCmds == {"open", "complete", "block", "start"}

ShortcutLiteral(cmd) ==
    CASE cmd = "open" -> Str_open
      [] cmd = "complete" -> Str_completed
      [] cmd = "block" -> Str_blocked
      [] cmd = "start" -> Str_in_progress

UserStatusCmds == {"close", "status", "update status", "ticket update"}

\* C35: every ticket's status is one of open, in-progress, testing, blocked,
\* closed, cancelled, completed, done: a created ticket is open, a shortcut
\* stores its literal, and a command with a status argument stores the
\* lower-case canonical form of the argument
C35_StatusInDomain ==
    [][/\ \A t \in DOMAIN tickets' : tickets'[t].status \in AllowedStatuses
       /\ \A t \in (DOMAIN tickets') \ (DOMAIN tickets) :
            last'.cmd \in {"add", "ticket create"} => tickets'[t].status = Str_open
       /\ \A t \in (DOMAIN tickets') \cap (DOMAIN tickets) :
            tickets'[t].status # tickets[t].status =>
                \/ /\ last'.cmd \in ShortcutCmds
                   /\ tickets'[t].status = ShortcutLiteral(last'.cmd)
                \/ /\ last'.cmd \in UserStatusCmds
                   /\ tickets'[t].status \in CanonicalStatuses
                   /\ \E st \in Statuses \cup {Str_closed} :
                         SameUpToCase(st, tickets'[t].status)]_vars

\* `status <id> OPEN` has stored "open"
C35_Witness ==
    /\ last.cmd = "status"
    /\ Attempted("update_ticket_status", last.target)
    /\ last.result = "Ok"
    /\ last.target \in DOMAIN tickets
    /\ tickets[last.target].status = Str_open

\* C36: every persisted comment, the one `block` stores for the reason and
\* those `comment update` rewrites included, has between 1 and 1000 characters
C36_CommentLength ==
    \A c \in DOMAIN comments :
        1 <= comments[c].content.chars /\ comments[c].content.chars <= 1000

DurationCmds == {"time log", "time update"}

\* C37: a `time log` or `time update` that fails without a repository error
\* fails with a typed validation failure, which handle_command turns into Ok
C37_InputFailuresAreClean ==
    (/\ last.cmd \in DurationCmds
     /\ \A k \in 1..Len(last.calls) : last.calls[k].ok)
    => /\ last.inner \in ValidationErrors \cup {"Ok"}
       /\ last.result = "Ok"

\* C38: parse_duration returns a pair or an error value for every text, the
\* texts with an 'm' before the 'h' and those made of 'h' and 'm' only
\* included; it never aborts the process
C38_ParseDurationTotal ==
    arg.fn = "parse_duration"
    => /\ ret.e # "Panic"
       /\ ret.ok \/ ret.e \in {"Other", "InvalidTime"}

\* C39: every ticket id with an entry in the tracking map is the id of a
\* ticket of the repository
C39_TrackedTicketsExist ==
    DOMAIN time_tracking \subseteq DOMAIN tickets

TimerCmds == {"time start", "time pause", "time resume", "time stop", "time cancel"}

\* C40: Start, Pause, Resume, Stop and Cancel on a ticket leave the tracking
\* entry of every other ticket as it is (presence and fields) and persist no
\* TimeLog for another ticket; the `time` commands change no ticket
C40_OtherTimersUntouched ==
    [][last'.cmd \in TimerCmds \cup {"start"} =>
        /\ \A b \in ((DOMAIN time_tracking) \cup (DOMAIN time_tracking')) \ {last'.target} :
              /\ b \in DOMAIN time_tracking
              /\ b \in DOMAIN time_tracking'
              /\ time_tracking'[b] = time_tracking[b]
        /\ \A l \in NewLogs : time_logs'[l].ticket_id = last'.target
        /\ \A b \in (DOMAIN tickets) \ {last'.target} :
              b \in DOMAIN tickets' /\ tickets'[b] = tickets[b]
        /\ last'.cmd \in TimerCmds => tickets' = tickets]_vars

\* Ticket 1 has been stopped while the timer of ticket 2 is paused
C40_Witness ==
    /\ last.cmd = "time stop"
    /\ last.target = 1
    /\ \E l \in DOMAIN time_logs : time_logs[l].ticket_id = 1
    /\ 2 \in DOMAIN time_tracking
    /\ is_paused(time_tracking[2])
    /\ 1 \notin DOMAIN time_tracking

====
